---- MODULE Spec2Model ----
(***************************************************************************)
(* Model of TripDataService (apps/client/services/trip-data-service.ts):   *)
(* the windowed trip-streaming cache.  One action per macrotask of the     *)
(* main thread (a public method call, a worker message handler, a fetch    *)
(* completion, a retry timer), each including the promise continuations    *)
(* (microtasks) that run before the next macrotask.  The processing unit   *)
(* (the worker) is a second process reached through two FIFO queues.       *)
(***************************************************************************)
EXTENDS Integers, Sequences, FiniteSets, TLC

\* ---------------------------------------------------------------- constants
MAX_RETRIES == 3
CHUNK_SIZE_SECONDS == 30
BATCH_SIZE_SECONDS == 60 * 60
CHUNKS_PER_BATCH == BATCH_SIZE_SECONDS \div CHUNK_SIZE_SECONDS
\* The chunk and batch sizes in milliseconds of window time (lib/config).
SIM_CHUNK_SIZE_MS == CHUNK_SIZE_SECONDS * 1000
SIM_BATCH_SIZE_MS == BATCH_SIZE_SECONDS * 1000

\* ------------------------------------------------------------------- bounds
\* Number of loadBatch/requestChunk/prefetch/init invocations that are tracked.
MaxCalls == 3
\* Largest trip id and longest query result of the batch-0 merge.
MaxTripId == 3
MaxLen == 2

CallIds == 1..MaxCalls
InitId == 1
\* Chunk indices requested by init() (trip-data-service.ts:95).
InitialChunks == <<0, 1, 2>>
\* Chunk indices the consumer asks for, and the batches it prefetches/clears.
ConsumerChunks == {125, 126}
ConsumerBatches == {0, 1}
\* The chunk and the batch of the hour-5 session: chunk 600 is the first of batch 5.
ScenarioChunks == {600}
ScenarioBatches == {5}
Batches == ConsumerBatches \cup ScenarioBatches
\* Window starts and animation start dates of the configuration, in ms.
WindowStarts == {0, 1000, SIM_BATCH_SIZE_MS}
Chunks == {InitialChunks[i] : i \in 1..Len(InitialChunks)} \cup ConsumerChunks \cup ScenarioChunks

VARIABLES
    loadedBatches,            \* Set<number>
    loadingBatches,           \* Set<number>
    batchProcessedCallbacks,  \* Map<number, {resolve, reject}[]>: batch -> Seq of call ids
    pendingChunkRequests,     \* Map<number, resolver>: chunk -> call id, 0 = no entry
    terminated,               \* boolean
    worker,                   \* "null" or "set"
    pendingRetryTimeouts,     \* Set of timers, a timer is named by the call that waits on it
    calls,                    \* one record per invocation: its position and what it observed
    toUnit,                   \* messages posted to the worker, not yet handled by it
    fromUnit,                 \* messages/events of the worker, not yet handled by the service
    unitStatus,               \* "none", "running", "crashed", "stopped"
    unitBatches,              \* batches whose data the worker retains
    lastOnError,              \* last value given to config.onError ("unset" before the first)
    crashErrors,              \* number of onError("Worker crashed unexpectedly")
    rangeTrips,               \* batch-0 merge: result of getTripsInRange
    overlapTrips,             \* batch-0 merge: result of getTripsOverlap
    forwarded,                \* batch-0 merge: the list fetchBatch returns
    mergeBatch,               \* batch-0 merge: the batch id fetchBatch was called with
    mergePc,                  \* batch-0 merge: "off", "start" or "done"
    config,                   \* realWindowStartMs and animationStartDate (ms) of the config
    issued                    \* the backing-store queries fetchBatch issued

svcVars == <<loadedBatches, loadingBatches, batchProcessedCallbacks, pendingChunkRequests,
             terminated, worker, pendingRetryTimeouts, calls, toUnit, lastOnError,
             crashErrors>>
unitVars == <<fromUnit, unitStatus, unitBatches>>
mergeVars == <<rangeTrips, overlapTrips, forwarded, mergeBatch, mergePc, config, issued>>
vars == <<svcVars, unitVars, mergeVars>>

\* ------------------------------------------------------------------ helpers
\* Variant: rounds up instead of down.
BatchOfBad(chunkIndex) == (chunkIndex + CHUNKS_PER_BATCH - 1) \div CHUNKS_PER_BATCH
\* Math.floor(chunkIndex / CHUNKS_PER_BATCH) for a non-negative integer index.
BatchOf(chunkIndex) == chunkIndex \div CHUNKS_PER_BATCH

NoCall == [kind |-> "none", chunk |-> 0, batch |-> 0, pc |-> "idle", attempt |-> 0,
           settles |-> 0, result |-> "none", reported |-> 0, cleared |-> 0,
           lastError |-> 0]

\* The service's state as one value, so that a handler and the continuations it
\* triggers compose as functions.
St == [loadedBatches |-> loadedBatches, loadingBatches |-> loadingBatches,
       batchProcessedCallbacks |-> batchProcessedCallbacks,
       pendingChunkRequests |-> pendingChunkRequests, terminated |-> terminated,
       worker |-> worker, pendingRetryTimeouts |-> pendingRetryTimeouts,
       calls |-> calls, toUnit |-> toUnit, lastOnError |-> lastOnError,
       crashErrors |-> crashErrors]

Commit(t) ==
    /\ loadedBatches' = t.loadedBatches
    /\ loadingBatches' = t.loadingBatches
    /\ batchProcessedCallbacks' = t.batchProcessedCallbacks
    /\ pendingChunkRequests' = t.pendingChunkRequests
    /\ terminated' = t.terminated
    /\ worker' = t.worker
    /\ pendingRetryTimeouts' = t.pendingRetryTimeouts
    /\ calls' = t.calls
    /\ toUnit' = t.toUnit
    /\ lastOnError' = t.lastOnError
    /\ crashErrors' = t.crashErrors

\* this.worker?.postMessage(message)
Post(s, m) == IF s.worker = "null" THEN s ELSE [s EXCEPT !.toUnit = Append(@, m)]

\* this.config.onError?.(v) on behalf of call id; v = "null" clears the error.
OnError(s, id, v) ==
    IF v = "null"
    THEN [s EXCEPT !.lastOnError = v, !.calls[id].cleared = @ + 1]
    ELSE [s EXCEPT !.lastOnError = v, !.calls[id].reported = @ + 1]

\* The promise of call id is resolved or rejected.  (attempt is the counter of the
\* call's fetchBatchWithRetry run; it is kept until the load it served is over.)
Settle(s, id, pc, result) ==
    [s EXCEPT !.calls[id].pc = pc, !.calls[id].settles = @ + 1, !.calls[id].result = result,
              !.calls[id].attempt = 0]


\* ------------------------------------------------- promise continuations
RECURSIVE LoadBatch(_, _, _), Resume(_, _), RequestChunkBody(_, _, _), RejectAll(_, _, _),
          ResumeAll(_, _)

\* requestChunk, lines 119-126: register the resolver, post request-chunk.
\* Variant: a resolver already registered for the index is kept.
RegisterChunkKeepFirst(s, id, chunkIndex) ==
    Post([s EXCEPT !.pendingChunkRequests[chunkIndex] = IF @ = 0 THEN id ELSE @,
                   !.calls[id].pc = "waitChunk", !.calls[id].attempt = 0],
         [type |-> "request-chunk", arg |-> chunkIndex, trips |-> "none"])
RegisterChunk(s, id, chunkIndex) ==
    Post([s EXCEPT !.pendingChunkRequests[chunkIndex] = id, !.calls[id].pc = "waitChunk",
                   !.calls[id].attempt = 0],
         [type |-> "request-chunk", arg |-> chunkIndex, trips |-> "none"])

\* A caller whose loadBatch promise was rejected with err.
\*   requestChunk / init : the rejection propagates to the caller's own promise
\*   prefetchBatch       : the .catch of lines 134-139
\*   request-batch       : line 204 attaches no handler, the rejection is unhandled
\* Variant: the .catch of prefetchBatch without the terminated test of line 136.
RejectAlways(s, id, err) ==
    LET k == s.calls[id].kind
        s1 == Settle(s, id, "rejected", err)
    IN  CASE k = "prefetchBatch" -> OnError(s1, id, "load")
          [] OTHER -> s1
Reject(s, id, err) ==
    LET k == s.calls[id].kind
        s1 == Settle(s, id, "rejected", err)
    IN  CASE k = "prefetchBatch" -> IF s1.terminated THEN s1 ELSE OnError(s1, id, "load")
          [] OTHER -> s1

RejectAll(s, ids, err) ==
    IF ids = <<>> THEN s ELSE RejectAll(Reject(s, Head(ids), err), Tail(ids), err)

\* loadBatch, catch block (lines 285-299): unmark Loading, reject the waiters,
\* rethrow to the initiator id (whose fetchBatchWithRetry frame, with its attempt
\* counter, is gone).
\* Variant: without loadingBatches.delete(batchId) of line 287.
LoadBatchCatchKeepLoading(s, id, batchId, err) ==
    LET waiters == s.batchProcessedCallbacks[batchId]
        s1 == [s EXCEPT !.batchProcessedCallbacks[batchId] = <<>>,
                        !.calls[id].attempt = 0,
                        !.calls[id].lastError = IF err = "fetch" THEN @ ELSE 0]
    IN  RejectAll(s1, Append(waiters, id), err)
\* Variant: without the reject loop of lines 290-296.
LoadBatchCatchDropWaiters(s, id, batchId, err) ==
    LET s1 == [s EXCEPT !.loadingBatches = @ \ {batchId},
                        !.batchProcessedCallbacks[batchId] = <<>>,
                        !.calls[id].attempt = 0,
                        !.calls[id].lastError = IF err = "fetch" THEN @ ELSE 0]
    IN  Reject(s1, id, err)
LoadBatchCatch(s, id, batchId, err) ==
    LET waiters == s.batchProcessedCallbacks[batchId]
        s1 == [s EXCEPT !.loadingBatches = @ \ {batchId},
                        !.batchProcessedCallbacks[batchId] = <<>>,
                        !.calls[id].attempt = 0,
                        !.calls[id].lastError = IF err = "fetch" THEN @ ELSE 0]
    IN  RejectAll(s1, Append(waiters, id), err)

\* fetchBatchWithRetry, one iteration of the loop for attempt n (lines 305-311):
\* throw if terminated, else issue fetchBatch.
StartAttempt(s, id, batchId, n) ==
    IF s.terminated
    THEN LoadBatchCatch(s, id, batchId, "terminated")
    ELSE [s EXCEPT !.calls[id].pc = "fetching", !.calls[id].attempt = n]

\* loadBatch (lines 248-267) called by id.
\* Variant: without the waiter branch of lines 254-260.
LoadBatchNoCoalesce(s, id, batchId) ==
    IF batchId \in s.loadedBatches
    THEN Resume(s, id)
    ELSE StartAttempt([s EXCEPT !.loadingBatches = @ \cup {batchId},
                                !.calls[id].batch = batchId], id, batchId, 1)
\* Variant: without the loadedBatches test of lines 249-251.
LoadBatchNoLoadedCheck(s, id, batchId) ==
    IF batchId \in s.loadingBatches
    THEN [s EXCEPT !.batchProcessedCallbacks[batchId] = Append(@, id),
                   !.calls[id].batch = batchId, !.calls[id].pc = "waitLoad"]
    ELSE StartAttempt([s EXCEPT !.loadingBatches = @ \cup {batchId},
                                !.calls[id].batch = batchId], id, batchId, 1)
LoadBatch(s, id, batchId) ==
    IF batchId \in s.loadedBatches
    THEN Resume(s, id)
    ELSE IF batchId \in s.loadingBatches
    THEN [s EXCEPT !.batchProcessedCallbacks[batchId] = Append(@, id),
                   !.calls[id].batch = batchId, !.calls[id].pc = "waitLoad"]
    ELSE StartAttempt([s EXCEPT !.loadingBatches = @ \cup {batchId},
                                !.calls[id].batch = batchId], id, batchId, 1)

\* requestChunk (lines 111-127), also the requestChunk calls init makes.
\* Variant: without the loadedBatches test and the await of lines 115-117.
RequestChunkBodyNoLoad(s, id, chunkIndex) ==
    LET batchId == BatchOf(chunkIndex)
        s1 == [s EXCEPT !.calls[id].chunk = chunkIndex, !.calls[id].batch = batchId]
    IN  RegisterChunk(s1, id, chunkIndex)
RequestChunkBody(s, id, chunkIndex) ==
    LET batchId == BatchOf(chunkIndex)
        s1 == [s EXCEPT !.calls[id].chunk = chunkIndex, !.calls[id].batch = batchId]
    IN  IF batchId \notin s1.loadedBatches
        THEN LoadBatch(s1, id, batchId)
        ELSE RegisterChunk(s1, id, chunkIndex)

\* A caller whose loadBatch promise was resolved.
Resume(s, id) ==
    LET k == s.calls[id].kind
    IN  CASE k = "requestChunk" -> RegisterChunk(s, id, s.calls[id].chunk)
          [] k = "init" /\ s.calls[id].chunk < 0 -> RequestChunkBody(s, id, InitialChunks[1])
          [] k = "init" /\ s.calls[id].chunk >= 0 -> RegisterChunk(s, id, s.calls[id].chunk)
          [] OTHER -> Settle(s, id, "resolved", "loaded")

\* Variant: only the first callback of the list is resolved.
ResumeAllFirstOnly(s, ids) ==
    IF ids = <<>> THEN s ELSE Resume(s, Head(ids))
ResumeAll(s, ids) ==
    IF ids = <<>> THEN s ELSE ResumeAll(Resume(s, Head(ids)), Tail(ids))

\* The resolver of a pending chunk request is called with trips ("data"/"empty").
\* For init (lines 97-102) the loop goes on to the next initial chunk.
InitPos(chunkIndex) == CHOOSE i \in 1..Len(InitialChunks) : InitialChunks[i] = chunkIndex
\* Variant: init returns with the first chunk resolved.
ResolveChunkFirstOnly(s, id, trips) == Settle(s, id, "resolved", trips)
ResolveChunk(s, id, trips) ==
    IF s.calls[id].kind = "init"
    THEN LET i == InitPos(s.calls[id].chunk)
         IN  IF i < Len(InitialChunks)
             THEN RequestChunkBody(s, id, InitialChunks[i + 1])
             ELSE Settle(s, id, "resolved", trips)
    ELSE Settle(s, id, "resolved", trips)

\* ------------------------------------------------------------ bookkeeping
Msg(t, a, tr) == [type |-> t, arg |-> a, trips |-> tr]

FreeIds == {id \in CallIds : id # InitId /\ calls[id].pc = "idle"}
NextId == CHOOSE id \in FreeIds : \A o \in FreeIds : id <= o
RequestBatchQueued == Cardinality({i \in 1..Len(fromUnit) : fromUnit[i].type = "request-batch"})
\* A new invocation can be tracked (slots are kept for the queued request-batch messages).
HasFree == Cardinality(FreeIds) > RequestBatchQueued
\* construct -> init -> use -> terminate: the consumer uses the service after init returned.
Usable == calls[InitId].pc = "resolved" /\ ~terminated
Outstanding(id) == calls[id].pc \notin {"idle", "resolved", "rejected"}
NewCall(kind) == [NoCall EXCEPT !.kind = kind, !.pc = "start"]

\* ------------------------------------------------------ the public methods
\* init(), lines 56-88: create the worker, post init, wait for ready.
InitCall ==
    /\ calls[InitId].pc = "idle"
    /\ ~terminated
    /\ Commit(Post([St EXCEPT !.worker = "set",
                              !.calls[InitId] = [NoCall EXCEPT !.kind = "init", !.chunk = -1,
                                                               !.pc = "waitReady"]],
                   Msg("init", 0, "none")))
    /\ unitStatus' = "running"
    /\ UNCHANGED <<fromUnit, unitBatches, mergeVars>>

\* requestChunk(chunkIndex) by the consumer; it has no two calls for one index
\* outstanding at once.
\* requestChunk called by a consumer that does not keep to one request per
\* chunk index at a time.
RequestChunkAny(chunkIndex) ==
    /\ Usable
    /\ HasFree
    /\ Commit(RequestChunkBody([St EXCEPT !.calls[NextId] = NewCall("requestChunk")],
                               NextId, chunkIndex))
    /\ UNCHANGED <<unitVars, mergeVars>>
RequestChunk(chunkIndex) ==
    /\ Usable
    /\ HasFree
    /\ \A id \in CallIds : ~(Outstanding(id) /\ calls[id].kind \in {"requestChunk", "init"}
                             /\ calls[id].chunk = chunkIndex)
    /\ Commit(RequestChunkBody([St EXCEPT !.calls[NextId] = NewCall("requestChunk")],
                               NextId, chunkIndex))
    /\ UNCHANGED <<unitVars, mergeVars>>

\* prefetchBatch(batchId), lines 132-141.
\* Variant: without the test of line 133.
PrefetchBatchAlways(batchId) ==
    /\ Usable
    /\ HasFree
    /\ Commit(LoadBatch([St EXCEPT !.calls[NextId] = NewCall("prefetchBatch")],
                        NextId, batchId))
    /\ UNCHANGED <<unitVars, mergeVars>>
PrefetchBatch(batchId) ==
    /\ Usable
    /\ IF batchId \notin loadedBatches /\ batchId \notin loadingBatches
       THEN /\ HasFree
            /\ Commit(LoadBatch([St EXCEPT !.calls[NextId] = NewCall("prefetchBatch")],
                                NextId, batchId))
       ELSE UNCHANGED svcVars
    /\ UNCHANGED <<unitVars, mergeVars>>

\* clearBatch(batchId), lines 146-154.
\* Variant: without loadedBatches.delete(batchId) of line 152.
ClearBatchKeep(batchId) ==
    /\ Usable
    /\ IF batchId \in loadedBatches
       THEN Commit(Post(St, Msg("clear-batch", batchId, "none")))
       ELSE UNCHANGED svcVars
    /\ UNCHANGED <<unitVars, mergeVars>>
\* Variant: without the test of line 147.
ClearBatchAlways(batchId) ==
    /\ Usable
    /\ Commit([Post(St, Msg("clear-batch", batchId, "none"))
                  EXCEPT !.loadedBatches = @ \ {batchId}])
    /\ UNCHANGED <<unitVars, mergeVars>>
ClearBatch(batchId) ==
    /\ Usable
    /\ IF batchId \in loadedBatches
       THEN Commit([Post(St, Msg("clear-batch", batchId, "none"))
                       EXCEPT !.loadedBatches = @ \ {batchId}])
       ELSE UNCHANGED svcVars
    /\ UNCHANGED <<unitVars, mergeVars>>

\* isBatchLoaded(batchId), lines 159-161.
isBatchLoaded(batchId) == batchId \in loadedBatches

\* terminate(), lines 166-179.  Worker.terminate() stops the unit and discards
\* what it has not handled; what the unit had already posted may still arrive.
\* Variant: without this.worker = null of line 174.
TerminateStKeepWorker(s) ==
    [s EXCEPT !.terminated = TRUE,
              !.pendingRetryTimeouts = {},
              !.toUnit = <<>>,
              !.pendingChunkRequests = [c \in Chunks |-> 0],
              !.batchProcessedCallbacks = [b \in Batches |-> <<>>],
              !.loadedBatches = {},
              !.loadingBatches = {}]
\* Variant: without pendingChunkRequests.clear() of line 175.
TerminateStKeepPending(s) ==
    [s EXCEPT !.terminated = TRUE,
              !.pendingRetryTimeouts = {},
              !.worker = "null",
              !.toUnit = <<>>,
              !.batchProcessedCallbacks = [b \in Batches |-> <<>>],
              !.loadedBatches = {},
              !.loadingBatches = {}]
\* The service's fields after terminate().
TerminateSt(s) ==
    [s EXCEPT !.terminated = TRUE,
              !.pendingRetryTimeouts = {},
              !.worker = "null",
              !.toUnit = <<>>,
              !.pendingChunkRequests = [c \in Chunks |-> 0],
              !.batchProcessedCallbacks = [b \in Batches |-> <<>>],
              !.loadedBatches = {},
              !.loadingBatches = {}]
\* Variant: without the clearTimeout loop of lines 169-172.
TerminateKeepTimers ==
    /\ Commit([St EXCEPT !.terminated = TRUE,
                         !.worker = "null",
                         !.toUnit = <<>>,
                         !.pendingChunkRequests = [c \in Chunks |-> 0],
                         !.batchProcessedCallbacks = [b \in Batches |-> <<>>],
                         !.loadedBatches = {},
                         !.loadingBatches = {}])
    /\ unitStatus' = IF unitStatus = "none" THEN "none" ELSE "stopped"
    /\ unitBatches' = {}
    /\ UNCHANGED <<fromUnit, mergeVars>>
Terminate ==
    /\ Commit(TerminateSt(St))
    /\ unitStatus' = IF unitStatus = "none" THEN "none" ELSE "stopped"
    /\ unitBatches' = {}
    /\ UNCHANGED <<fromUnit, mergeVars>>

\* ------------------------------------------------- fetch and retry events
\* fetchBatch of call id returns: loadBatch lines 267-284.
\* Variant: the batch is marked loaded as soon as its trips are fetched.
FetchOkMarksLoaded(id) ==
    /\ calls[id].pc = "fetching"
    /\ LET b == calls[id].batch
           s1 == OnError([St EXCEPT !.calls[id].lastError = 0], id, "null")
           s2 == Post(s1, Msg("load-batch", b, "none"))
       IN  Commit([s2 EXCEPT !.batchProcessedCallbacks[b] = Append(@, id),
                             !.loadedBatches = @ \cup {b},
                             !.calls[id].pc = "waitProcessed"])
    /\ UNCHANGED <<unitVars, mergeVars>>
\* Variant: loadBatch returns once load-batch is posted, without the wait of
\* lines 279-284.
FetchOkResolves(id) ==
    /\ calls[id].pc = "fetching"
    /\ LET b == calls[id].batch
           s1 == OnError([St EXCEPT !.calls[id].lastError = 0], id, "null")
           s2 == Post(s1, Msg("load-batch", b, "none"))
       IN  Commit(Resume(s2, id))
    /\ UNCHANGED <<unitVars, mergeVars>>
\* Variant: without this.config.onError?.(null) of line 270.
FetchOkNoClear(id) ==
    /\ calls[id].pc = "fetching"
    /\ LET b == calls[id].batch
           s1 == [St EXCEPT !.calls[id].lastError = 0]
           s2 == Post(s1, Msg("load-batch", b, "none"))
       IN  Commit([s2 EXCEPT !.batchProcessedCallbacks[b] = Append(@, id),
                             !.calls[id].pc = "waitProcessed"])
    /\ UNCHANGED <<unitVars, mergeVars>>
FetchOk(id) ==
    /\ calls[id].pc = "fetching"
    /\ LET b == calls[id].batch
           s1 == OnError([St EXCEPT !.calls[id].lastError = 0], id, "null")
           s2 == Post(s1, Msg("load-batch", b, "none"))
       IN  Commit([s2 EXCEPT !.batchProcessedCallbacks[b] = Append(@, id),
                             !.calls[id].pc = "waitProcessed"])
    /\ UNCHANGED <<unitVars, mergeVars>>

\* fetchBatch of call id throws: fetchBatchWithRetry lines 312-328.
\* Variant: the catch of loadBatch leaves the batch in loadingBatches.
FetchFailNoUnmark(id) ==
    /\ calls[id].pc = "fetching"
    /\ LET b == calls[id].batch
           n == calls[id].attempt
           s0 == [St EXCEPT !.calls[id].lastError = n]
       IN  IF n < MAX_RETRIES /\ ~terminated
           THEN Commit([s0 EXCEPT !.calls[id].pc = "delay",
                                  !.pendingRetryTimeouts = @ \cup {id}])
           ELSE IF n < MAX_RETRIES
           THEN Commit(StartAttempt(s0, id, b, n + 1))
           ELSE Commit(LoadBatchCatchKeepLoading(s0, id, b, "fetch"))
    /\ UNCHANGED <<unitVars, mergeVars>>
\* Variant: every failed attempt is reported through onError.
FetchFailReports(id) ==
    /\ calls[id].pc = "fetching"
    /\ LET b == calls[id].batch
           n == calls[id].attempt
           s0 == OnError([St EXCEPT !.calls[id].lastError = n], id, "load")
       IN  IF n < MAX_RETRIES /\ ~terminated
           THEN Commit([s0 EXCEPT !.calls[id].pc = "delay",
                                  !.pendingRetryTimeouts = @ \cup {id}])
           ELSE IF n < MAX_RETRIES
           THEN Commit(StartAttempt(s0, id, b, n + 1))
           ELSE Commit(LoadBatchCatch(s0, id, b, "fetch"))
    /\ UNCHANGED <<unitVars, mergeVars>>
\* Variant: lastError keeps the error of the first failed attempt.
FetchFailFirstError(id) ==
    /\ calls[id].pc = "fetching"
    /\ LET b == calls[id].batch
           n == calls[id].attempt
           s0 == [St EXCEPT !.calls[id].lastError = IF @ = 0 THEN n ELSE @]
       IN  IF n < MAX_RETRIES /\ ~terminated
           THEN Commit([s0 EXCEPT !.calls[id].pc = "delay",
                                  !.pendingRetryTimeouts = @ \cup {id}])
           ELSE IF n < MAX_RETRIES
           THEN Commit(StartAttempt(s0, id, b, n + 1))
           ELSE Commit(LoadBatchCatch(s0, id, b, "fetch"))
    /\ UNCHANGED <<unitVars, mergeVars>>
FetchFail(id) ==
    /\ calls[id].pc = "fetching"
    /\ LET b == calls[id].batch
           n == calls[id].attempt
           s0 == [St EXCEPT !.calls[id].lastError = n]
       IN  IF n < MAX_RETRIES /\ ~terminated
           THEN Commit([s0 EXCEPT !.calls[id].pc = "delay",
                                  !.pendingRetryTimeouts = @ \cup {id}])
           ELSE IF n < MAX_RETRIES
           THEN Commit(StartAttempt(s0, id, b, n + 1))
           ELSE Commit(LoadBatchCatch(s0, id, b, "fetch"))
    /\ UNCHANGED <<unitVars, mergeVars>>

\* The retry timer of call id fires: lines 318-321, then the next iteration.
\* Variant: the timer callback without pendingRetryTimeouts.delete of line 319.
TimerFireKeep(id) ==
    /\ id \in pendingRetryTimeouts /\ calls[id].pc = "delay"
    /\ Commit(StartAttempt(St, id, calls[id].batch, calls[id].attempt + 1))
    /\ UNCHANGED <<unitVars, mergeVars>>
\* Variant: the timer callback without resolve() of line 320.
TimerFireNoResolve(id) ==
    /\ id \in pendingRetryTimeouts
    /\ Commit([St EXCEPT !.pendingRetryTimeouts = @ \ {id}])
    /\ UNCHANGED <<unitVars, mergeVars>>
TimerFire(id) ==
    /\ id \in pendingRetryTimeouts
    /\ Commit(StartAttempt([St EXCEPT !.pendingRetryTimeouts = @ \ {id}],
                           id, calls[id].batch, calls[id].attempt + 1))
    /\ UNCHANGED <<unitVars, mergeVars>>

\* ------------------------------------------- handlers of worker messages
Receive == fromUnit' = Tail(fromUnit)

\* "ready": the listener of init (lines 75-80) resolves init's wait; init goes on
\* with loadBatch(0) (line 91).
HandleReady ==
    /\ fromUnit # <<>> /\ Head(fromUnit).type = "ready"
    /\ IF calls[InitId].pc = "waitReady"
       THEN Commit(LoadBatch(St, InitId, 0))
       ELSE UNCHANGED svcVars
    /\ Receive
    /\ UNCHANGED <<unitStatus, unitBatches, mergeVars>>

\* handleMessage, case "chunk-response" (lines 193-200).
\* Variant: without pendingChunkRequests.delete of line 197.
HandleChunkResponseKeep ==
    /\ fromUnit # <<>> /\ Head(fromUnit).type = "chunk-response"
    /\ LET m == Head(fromUnit)
           resolver == pendingChunkRequests[m.arg]
       IN  IF resolver # 0
           THEN Commit(ResolveChunk(St, resolver, m.trips))
           ELSE UNCHANGED svcVars
    /\ Receive
    /\ UNCHANGED <<unitStatus, unitBatches, mergeVars>>
\* Variant: pendingChunkRequests.clear() in place of the delete of line 197.
HandleChunkResponseClearAll ==
    /\ fromUnit # <<>> /\ Head(fromUnit).type = "chunk-response"
    /\ LET m == Head(fromUnit)
           resolver == pendingChunkRequests[m.arg]
       IN  IF resolver # 0
           THEN Commit(ResolveChunk([St EXCEPT !.pendingChunkRequests = [c \in Chunks |-> 0]],
                                    resolver, m.trips))
           ELSE UNCHANGED svcVars
    /\ Receive
    /\ UNCHANGED <<unitStatus, unitBatches, mergeVars>>
HandleChunkResponse ==
    /\ fromUnit # <<>> /\ Head(fromUnit).type = "chunk-response"
    /\ LET m == Head(fromUnit)
           resolver == pendingChunkRequests[m.arg]
       IN  IF resolver # 0
           THEN Commit(ResolveChunk([St EXCEPT !.pendingChunkRequests[m.arg] = 0],
                                    resolver, m.trips))
           ELSE UNCHANGED svcVars
    /\ Receive
    /\ UNCHANGED <<unitStatus, unitBatches, mergeVars>>

\* handleMessage, case "request-batch" (lines 202-206): loadBatch with no handler.
HandleRequestBatch ==
    /\ fromUnit # <<>> /\ Head(fromUnit).type = "request-batch"
    /\ FreeIds # {}
    /\ Commit(LoadBatch([St EXCEPT !.calls[NextId] = NewCall("requestBatch")],
                        NextId, Head(fromUnit).arg))
    /\ Receive
    /\ UNCHANGED <<unitStatus, unitBatches, mergeVars>>

\* handleMessage, case "batch-processed" (lines 208-222).
\* Variant: without loadingBatches.delete of line 210.
HandleBatchProcessedKeepLoading ==
    /\ fromUnit # <<>> /\ Head(fromUnit).type = "batch-processed"
    /\ LET b == Head(fromUnit).arg
           callbacks == batchProcessedCallbacks[b]
       IN  Commit(ResumeAll([St EXCEPT !.loadedBatches = @ \cup {b},
                                       !.batchProcessedCallbacks[b] = <<>>],
                            callbacks))
    /\ Receive
    /\ UNCHANGED <<unitStatus, unitBatches, mergeVars>>
\* Variant: without batchProcessedCallbacks.delete of line 220.
HandleBatchProcessedKeepCallbacks ==
    /\ fromUnit # <<>> /\ Head(fromUnit).type = "batch-processed"
    /\ LET b == Head(fromUnit).arg
           callbacks == batchProcessedCallbacks[b]
       IN  Commit(ResumeAll([St EXCEPT !.loadedBatches = @ \cup {b},
                                       !.loadingBatches = @ \ {b}],
                            callbacks))
    /\ Receive
    /\ UNCHANGED <<unitStatus, unitBatches, mergeVars>>
HandleBatchProcessed ==
    /\ fromUnit # <<>> /\ Head(fromUnit).type = "batch-processed"
    /\ LET b == Head(fromUnit).arg
           callbacks == batchProcessedCallbacks[b]
       IN  Commit(ResumeAll([St EXCEPT !.loadedBatches = @ \cup {b},
                                       !.loadingBatches = @ \ {b},
                                       !.batchProcessedCallbacks[b] = <<>>],
                            callbacks))
    /\ Receive
    /\ UNCHANGED <<unitStatus, unitBatches, mergeVars>>

\* handleMessage, case "error" (lines 224-227): the message is logged.
HandleErrorMessage ==
    /\ fromUnit # <<>> /\ Head(fromUnit).type = "error"
    /\ Receive
    /\ UNCHANGED <<svcVars, unitStatus, unitBatches, mergeVars>>

\* handleError (lines 231-242), the worker's onerror: every registered resolver
\* is called with [], the map is cleared, the crash is reported unless terminated.
RECURSIVE ResolveAllEmpty(_, _)
ResolveAllEmpty(s, ids) ==
    IF ids = {} THEN s
    ELSE LET id == CHOOSE i \in ids : \A o \in ids : i <= o
         IN  ResolveAllEmpty(ResolveChunk(s, id, "empty"), ids \ {id})
\* Variant: without the terminated test of line 239.
HandleErrorAlways ==
    /\ fromUnit # <<>> /\ Head(fromUnit).type = "crash"
    /\ LET resolvers == {pendingChunkRequests[c] : c \in Chunks} \ {0}
           s1 == [St EXCEPT !.pendingChunkRequests = [c \in Chunks |-> 0]]
           s2 == [s1 EXCEPT !.lastOnError = "crash", !.crashErrors = @ + 1]
       IN  Commit(ResolveAllEmpty(s2, resolvers))
    /\ Receive
    /\ UNCHANGED <<unitStatus, unitBatches, mergeVars>>
HandleError ==
    /\ fromUnit # <<>> /\ Head(fromUnit).type = "crash"
    /\ LET resolvers == {pendingChunkRequests[c] : c \in Chunks} \ {0}
           s1 == [St EXCEPT !.pendingChunkRequests = [c \in Chunks |-> 0]]
           s2 == IF terminated THEN s1
                 ELSE [s1 EXCEPT !.lastOnError = "crash", !.crashErrors = @ + 1]
       IN  Commit(ResolveAllEmpty(s2, resolvers))
    /\ Receive
    /\ UNCHANGED <<unitStatus, unitBatches, mergeVars>>

\* ------------------------------------------------------ the processing unit
\* The worker handles the next message posted to it (protocol of the unit).
UnitHandle ==
    /\ unitStatus = "running"
    /\ toUnit # <<>>
    /\ LET m == Head(toUnit)
       IN  /\ unitBatches' = CASE m.type = "load-batch" -> unitBatches \cup {m.arg}
                               [] m.type = "clear-batch" -> unitBatches \ {m.arg}
                               [] OTHER -> unitBatches
           /\ fromUnit' = CASE m.type = "init" -> Append(fromUnit, Msg("ready", 0, "none"))
                            [] m.type = "load-batch" ->
                                 Append(fromUnit, Msg("batch-processed", m.arg, "none"))
                            [] m.type = "request-chunk" ->
                                 Append(fromUnit, Msg("chunk-response", m.arg,
                                     IF BatchOf(m.arg) \in unitBatches THEN "data" ELSE "empty"))
                            [] OTHER -> fromUnit
    /\ toUnit' = Tail(toUnit)
    /\ UNCHANGED <<loadedBatches, loadingBatches, batchProcessedCallbacks,
                   pendingChunkRequests, terminated, worker, pendingRetryTimeouts, calls,
                   lastOnError, crashErrors, unitStatus, mergeVars>>

\* The worker finds that it needs a batch and asks for it.
UnitRequestBatch(batchId) ==
    /\ unitStatus = "running"
    /\ unitBatches # {}
    /\ HasFree
    /\ fromUnit' = Append(fromUnit, Msg("request-batch", batchId, "none"))
    /\ UNCHANGED <<svcVars, unitStatus, unitBatches, mergeVars>>

\* The worker fails to slice a trip of the batch it is given and says so; it
\* goes on running.
UnitError ==
    /\ unitStatus = "running"
    /\ toUnit # <<>> /\ Head(toUnit).type = "load-batch"
    /\ \A i \in 1..Len(fromUnit) : fromUnit[i].type # "error"
    /\ fromUnit' = Append(fromUnit, Msg("error", 0, "none"))
    /\ UNCHANGED <<svcVars, unitStatus, unitBatches, mergeVars>>

\* The worker crashes: its error event is queued behind what it already posted.
UnitCrash ==
    /\ unitStatus = "running"
    /\ unitStatus' = "crashed"
    /\ unitBatches' = {}
    /\ fromUnit' = Append(fromUnit, Msg("crash", 0, "none"))
    /\ UNCHANGED <<svcVars, mergeVars>>

\* ---------------------------------------------- fetchBatch, the merge
TripIds == 1..MaxTripId
\* A trip as a query returned it: its id and the query the copy came from.
Trip(i, src) == [id |-> i, src |-> src]
\* The results a query can give: lists of at most MaxLen trips with unique ids.
QueryResults(src) ==
    {q \in UNION {[1..n -> {Trip(i, src) : i \in TripIds}] : n \in 0..MaxLen} :
        \A i, j \in 1..Len(q) : i # j => q[i].id # q[j].id}

\* Map.set(trip.id, trip) on a Map kept as its entries in insertion order: an
\* existing key keeps its position and takes the new value.
\* Variant: an existing key keeps its old value.
MapSetKeepOld(m, trip) ==
    IF \E i \in 1..Len(m) : m[i].id = trip.id
    THEN m
    ELSE Append(m, trip)
MapSet(m, trip) ==
    IF \E i \in 1..Len(m) : m[i].id = trip.id
    THEN [i \in 1..Len(m) |-> IF m[i].id = trip.id THEN trip ELSE m[i]]
    ELSE Append(m, trip)

RECURSIVE SetAll(_, _)
SetAll(m, trips) == IF trips = <<>> THEN m ELSE SetAll(MapSet(m, Head(trips)), Tail(trips))

\* fetchBatch (lines 331-371): for batch 0 the overlap trips are put in the map
\* first, then the range trips; Array.from(tripMap.values()).  Other batches
\* return the range query's list.
fetchBatch(batchId, trips, overlap) ==
    IF batchId = 0 THEN SetAll(SetAll(<<>>, overlap), trips) ELSE trips

\* The queries of one fetchBatch(batchId) call (lines 334-335, 340-350, 367-370);
\* new Date(ms) keeps the millisecond value.
realBatchStartMs(batchId, cfg) == cfg.realWindowStartMs + batchId * SIM_BATCH_SIZE_MS
realBatchEndMs(batchId, cfg) == realBatchStartMs(batchId, cfg) + SIM_BATCH_SIZE_MS
getTripsInRange(batchId, cfg) ==
    [query |-> "range", from |-> realBatchStartMs(batchId, cfg),
     to |-> realBatchEndMs(batchId, cfg)]
getTripsOverlap(cfg) ==
    [query |-> "overlap", from |-> cfg.animationStartDate,
     to |-> cfg.realWindowStartMs + SIM_CHUNK_SIZE_MS]
\* Variant: without the batchId === 0 test of line 340.
fetchBatchQueriesBoth(batchId, cfg) ==
    <<getTripsInRange(batchId, cfg), getTripsOverlap(cfg)>>
fetchBatchQueries(batchId, cfg) ==
    IF batchId = 0
    THEN <<getTripsInRange(batchId, cfg), getTripsOverlap(cfg)>>
    ELSE <<getTripsInRange(batchId, cfg)>>

FetchBatchReturn ==
    /\ mergePc = "start"
    /\ issued' = fetchBatchQueries(mergeBatch, config)
    /\ forwarded' = fetchBatch(mergeBatch, rangeTrips, overlapTrips)
    /\ mergePc' = "done"
    /\ UNCHANGED <<svcVars, unitVars, rangeTrips, overlapTrips, mergeBatch, config>>

\* ------------------------------------------------------------ specification
Init ==
    /\ loadedBatches = {}
    /\ loadingBatches = {}
    /\ batchProcessedCallbacks = [b \in Batches |-> <<>>]
    /\ pendingChunkRequests = [c \in Chunks |-> 0]
    /\ terminated = FALSE
    /\ worker = "null"
    /\ pendingRetryTimeouts = {}
    /\ calls = [id \in CallIds |-> NoCall]
    /\ toUnit = <<>>
    /\ fromUnit = <<>>
    /\ unitStatus = "none"
    /\ unitBatches = {}
    /\ lastOnError = "unset"
    /\ crashErrors = 0
    /\ rangeTrips = <<>>
    /\ overlapTrips = <<>>
    /\ forwarded = <<>>
    /\ mergeBatch = 0
    /\ mergePc = "off"
    /\ config = [realWindowStartMs |-> 0, animationStartDate |-> 0]
    /\ issued = <<>>

Next ==
    \/ InitCall
    \/ \E c \in ConsumerChunks : RequestChunk(c)
    \/ \E b \in ConsumerBatches : PrefetchBatch(b)
    \/ \E b \in ConsumerBatches : ClearBatch(b)
    \/ Terminate
    \/ \E id \in CallIds : FetchOk(id)
    \/ \E id \in CallIds : FetchFail(id)
    \/ \E id \in CallIds : TimerFire(id)
    \/ HandleReady
    \/ HandleChunkResponse
    \/ HandleRequestBatch
    \/ HandleBatchProcessed
    \/ HandleError
    \/ UnitHandle
    \/ \E b \in ConsumerBatches : UnitRequestBatch(b)
    \/ UnitCrash

Spec == Init /\ [][Next]_vars

\* The same service in a session around hour 5: the consumer prefetches batch 5
\* and asks for chunk 600, and the worker may report processing errors (the
\* "error" message changes no field of the service).
NextScenario ==
    \/ InitCall
    \/ \E c \in ScenarioChunks : RequestChunk(c)
    \/ \E b \in ScenarioBatches : PrefetchBatch(b)
    \/ \E b \in ScenarioBatches : ClearBatch(b)
    \/ Terminate
    \/ \E id \in CallIds : FetchOk(id)
    \/ \E id \in CallIds : FetchFail(id)
    \/ \E id \in CallIds : TimerFire(id)
    \/ HandleReady
    \/ HandleChunkResponse
    \/ HandleRequestBatch
    \/ HandleBatchProcessed
    \/ HandleError
    \/ HandleErrorMessage
    \/ UnitHandle
    \/ UnitError
    \/ \E b \in ScenarioBatches : UnitRequestBatch(b)
    \/ UnitCrash

SpecScenario == Init /\ [][NextScenario]_vars

\* The service in a session in which terminate() is not called and the worker
\* does not crash.  The event loop runs every queued task: a fetch attempt
\* completes, a retry timer fires, the worker handles the messages posted to it
\* and the service handles the worker's messages.
NextLive ==
    \/ InitCall
    \/ \E c \in ConsumerChunks : RequestChunk(c)
    \/ \E b \in ConsumerBatches : PrefetchBatch(b)
    \/ \E b \in ConsumerBatches : ClearBatch(b)
    \/ \E id \in CallIds : FetchOk(id)
    \/ \E id \in CallIds : FetchFail(id)
    \/ \E id \in CallIds : TimerFire(id)
    \/ HandleReady
    \/ HandleChunkResponse
    \/ HandleRequestBatch
    \/ HandleBatchProcessed
    \/ UnitHandle
    \/ \E b \in ConsumerBatches : UnitRequestBatch(b)

Fairness ==
    /\ \A id \in CallIds : WF_vars(FetchOk(id) \/ FetchFail(id))
    /\ \A id \in CallIds : WF_vars(TimerFire(id))
    /\ WF_vars(UnitHandle)
    /\ WF_vars(HandleReady)
    /\ WF_vars(HandleChunkResponse)
    /\ WF_vars(HandleRequestBatch)
    /\ WF_vars(HandleBatchProcessed)

SpecLive == Init /\ [][NextLive]_vars /\ Fairness

\* The service with a consumer that may ask again for a chunk index whose
\* request is still pending.
NextAny ==
    \/ InitCall
    \/ \E c \in ConsumerChunks : RequestChunkAny(c)
    \/ \E b \in ConsumerBatches : ClearBatch(b)
    \/ Terminate
    \/ \E id \in CallIds : FetchOk(id)
    \/ \E id \in CallIds : FetchFail(id)
    \/ \E id \in CallIds : TimerFire(id)
    \/ HandleReady
    \/ HandleChunkResponse
    \/ HandleBatchProcessed
    \/ HandleError
    \/ UnitHandle
    \/ UnitCrash

SpecAny == Init /\ [][NextAny]_vars

\* The service with a worker that does not crash: every operation, terminate()
\* included.
NextNoCrash ==
    \/ NextLive
    \/ Terminate

SpecNoCrash == Init /\ [][NextNoCrash]_vars

\* The same session when the worker can crash: its error event is queued for
\* the service and handled by handleError.
NextCrash ==
    \/ NextLive
    \/ UnitCrash
    \/ HandleError

SpecCrash == Init /\ [][NextCrash]_vars /\ Fairness /\ WF_vars(HandleError)

\* fetchBatch alone, over every pair of query results within the bounds.
InitMerge ==
    /\ loadedBatches = {}
    /\ loadingBatches = {}
    /\ batchProcessedCallbacks = [b \in Batches |-> <<>>]
    /\ pendingChunkRequests = [c \in Chunks |-> 0]
    /\ terminated = FALSE
    /\ worker = "null"
    /\ pendingRetryTimeouts = {}
    /\ calls = [id \in CallIds |-> NoCall]
    /\ toUnit = <<>>
    /\ fromUnit = <<>>
    /\ unitStatus = "none"
    /\ unitBatches = {}
    /\ lastOnError = "unset"
    /\ crashErrors = 0
    /\ rangeTrips \in QueryResults("range")
    /\ overlapTrips \in QueryResults("overlap")
    /\ forwarded = <<>>
    /\ mergeBatch \in Batches
    /\ mergePc = "start"
    /\ config \in [realWindowStartMs : WindowStarts, animationStartDate : WindowStarts]
    /\ issued = <<>>

NextMerge == FetchBatchReturn

SpecMerge == InitMerge /\ [][NextMerge]_vars

\* =================================================================== claims
\* A call that runs fetchBatchWithRetry: it is fetching or waits for its retry delay.
InFlight(id) == calls[id].pc \in {"fetching", "delay"}
\* A step in which call id comes into being as an invocation of the given kind.
Arrives(id, kind) == calls[id].pc = "idle" /\ calls'[id].pc # "idle" /\ calls'[id].kind = kind
\* A step in which the service handles the worker's error event.
CrashHandled == fromUnit # <<>> /\ Head(fromUnit).type = "crash" /\ fromUnit' = Tail(fromUnit)
InSeq(x, q) == \E i \in 1..Len(q) : q[i] = x

\* C1: for every batch at most one fetchBatchWithRetry run is in flight at any
\* time, whatever mix of requestChunk, prefetchBatch and request-batch asked for
\* it; before terminate() the run's batch is in the Loading set and every caller
\* that waits for a load is registered as a waiter of a batch that is Loading.
C1_SingleFlight ==
    /\ \A b \in Batches : Cardinality({id \in CallIds : InFlight(id) /\ calls[id].batch = b}) <= 1
    /\ ~terminated =>
         \A id \in CallIds :
            /\ InFlight(id) => calls[id].batch \in loadingBatches
            /\ calls[id].pc = "waitLoad" =>
                  /\ calls[id].batch \in loadingBatches
                  /\ InSeq(id, batchProcessedCallbacks[calls[id].batch])
C1_Witness ==
    \E i, j \in CallIds :
        /\ calls[i].kind = "requestChunk" /\ calls[i].pc = "fetching"
        /\ calls[j].kind = "requestChunk" /\ calls[j].pc = "waitLoad"
        /\ calls[i].batch = calls[j].batch /\ calls[i].chunk # calls[j].chunk

\* C2: the Loaded set and the Loading set are disjoint in every reachable state.
C2_Disjoint == loadedBatches \cap loadingBatches = {}
C2_Witness ==
    /\ loadedBatches # {} /\ loadingBatches # {}
    /\ \E id \in CallIds : id # InitId /\ calls[id].pc \in {"resolved", "rejected"}

\* C3: when the MAX_RETRIES-th attempt of a load fails, the load's promise is
\* rejected (once) with the fetch error and its batch is in neither set; an
\* invocation that arrives for a batch in neither set starts a run at attempt 1.
C3_ExhaustedStep ==
    \A id \in CallIds :
        /\ (/\ calls[id].pc = "fetching" /\ calls[id].attempt = MAX_RETRIES
            /\ calls'[id].pc \notin {"fetching", "waitProcessed"})
           => /\ calls'[id].pc = "rejected" /\ calls'[id].result = "fetch"
              /\ calls'[id].settles = calls[id].settles + 1
              /\ calls[id].batch \notin loadedBatches'
              /\ calls[id].batch \notin loadingBatches'
        /\ (/\ Arrives(id, "requestChunk") \/ Arrives(id, "prefetchBatch")
            /\ ~terminated
            /\ calls'[id].batch \notin loadedBatches \cup loadingBatches)
           => /\ calls'[id].pc = "fetching" /\ calls'[id].attempt = 1
              /\ calls'[id].batch \in loadingBatches'
\* C3: every step of the service is such a step.
C3_Exhaustion == [][C3_ExhaustedStep]_vars
C3_Witness ==
    \E i, j \in CallIds :
        /\ i < j /\ calls[i].batch = calls[j].batch
        /\ calls[i].pc = "rejected" /\ calls[i].result = "fetch"
        /\ calls[j].pc = "fetching" /\ calls[j].attempt = 1

\* C4: with no two requestChunk calls for one index outstanding at once, the
\* promise of every invocation is settled at most once (resolved or rejected).
C4_SettledOnce == \A id \in CallIds : calls[id].settles <= 1
C4_Witness ==
    /\ crashErrors = 1
    /\ \E i, j \in CallIds :
          /\ calls[i].kind = "requestChunk" /\ calls[i].pc = "resolved" /\ calls[i].result = "data"
          /\ calls[j].kind = "requestChunk" /\ calls[j].pc = "resolved" /\ calls[j].result = "empty"

\* C5: the step that sends clear-batch(b) leaves b not Loaded (isBatchLoaded(b)
\* is false) and not Loading; a requestChunk that arrives for a chunk of a batch
\* in neither set starts a fetch of that batch and sends no request-chunk message.
C5_Step ==
    /\ \A b \in Batches :
          (toUnit' = Append(toUnit, Msg("clear-batch", b, "none")))
             => (~isBatchLoaded(b)' /\ b \notin loadingBatches')
    /\ \A id \in CallIds :
          (/\ Arrives(id, "requestChunk")
           /\ BatchOf(calls'[id].chunk) \notin loadedBatches \cup loadingBatches)
             => /\ calls'[id].pc = "fetching"
                /\ calls'[id].batch = BatchOf(calls'[id].chunk)
                /\ calls'[id].batch \in loadingBatches'
                /\ toUnit' = toUnit
                /\ pendingChunkRequests' = pendingChunkRequests
\* C5: every step of the service is such a step.
C5_RefetchAfterClear == [][C5_Step]_vars
C5_Witness ==
    /\ ~terminated
    /\ \E i, j \in CallIds :
          /\ i < j /\ calls[i].batch = calls[j].batch
          /\ calls[i].kind = "requestChunk" /\ calls[i].pc = "resolved" /\ calls[i].result = "data"
          /\ calls[j].kind = "requestChunk" /\ calls[j].pc = "fetching"
          /\ ~isBatchLoaded(calls[j].batch)

\* C6: the list fetchBatch returns for batch 0 holds every trip id of the range
\* and overlap results exactly once; an id the range query returned is present
\* as the range query's copy, any other id as the overlap query's copy.
Ids(q) == {q[i].id : i \in 1..Len(q)}
Occurrences(q, tripId) == Cardinality({i \in 1..Len(q) : q[i].id = tripId})
C6_MergedOnce ==
    (mergePc = "done" /\ mergeBatch = 0) =>
        \A tripId \in TripIds :
            /\ Occurrences(forwarded, tripId) =
                  (IF tripId \in Ids(rangeTrips) \cup Ids(overlapTrips) THEN 1 ELSE 0)
            /\ tripId \in Ids(rangeTrips) => InSeq(Trip(tripId, "range"), forwarded)
            /\ tripId \in Ids(overlapTrips) \ Ids(rangeTrips)
                  => InSeq(Trip(tripId, "overlap"), forwarded)
C6_Witness ==
    /\ mergePc = "done" /\ mergeBatch = 0
    /\ Ids(rangeTrips) \cap Ids(overlapTrips) # {}
    /\ Ids(overlapTrips) \ Ids(rangeTrips) # {}
    /\ Ids(rangeTrips) \ Ids(overlapTrips) # {}

\* C7: a requestChunk works on batch floor(chunkIndex / 120) and on no other:
\* 120 * batch <= chunkIndex < 120 * (batch + 1), chunk 125 is in batch 1, and
\* the step in which the call arrives adds at most that batch to the Loading set.
C7_Step ==
    \A id \in CallIds :
        Arrives(id, "requestChunk") =>
            /\ 120 * calls'[id].batch <= calls'[id].chunk
            /\ calls'[id].chunk < 120 * (calls'[id].batch + 1)
            /\ calls'[id].chunk = 125 => calls'[id].batch = 1
            /\ loadingBatches' \subseteq loadingBatches \cup {calls'[id].batch}
            /\ loadedBatches' = loadedBatches
            /\ calls'[id].batch \notin loadedBatches => calls'[id].batch \in loadingBatches'
\* C7: every step of the service is such a step.
C7_BatchOfChunk == [][C7_Step]_vars
C7_Witness ==
    \E id \in CallIds :
        /\ calls[id].kind = "requestChunk" /\ calls[id].chunk = 125 /\ calls[id].batch = 1
        /\ calls[id].pc = "fetching" /\ loadingBatches = {1} /\ loadedBatches = {0}

\* C8: from terminate() on, a load that waits for its retry delay stays where it
\* is for ever: its timer is no longer pending and never fires, it issues no
\* further fetch and the error callback has not been and is not invoked for it.
C8_Step ==
    \A id \in CallIds :
        (terminated' /\ calls[id].pc = "delay")
           => /\ calls'[id] = calls[id]
              /\ calls[id].reported = 0
              /\ id \notin pendingRetryTimeouts'
\* C8: every step of the service is such a step.
C8_NoFetchAfterTerminate == [][C8_Step]_vars
C8_Witness ==
    /\ terminated
    /\ \E id \in CallIds : calls[id].kind = "prefetchBatch" /\ calls[id].pc = "delay"
                           /\ calls[id].attempt = 2

\* C9: once terminate() was called no retried load is left waiting between two
\* attempts: the retry policy has raised the termination error to its caller.
C9_AbortsWithTerminationError ==
    \A id \in CallIds : terminated => calls[id].pc # "delay"

\* C10: when the service handles the worker's error event, every requestChunk
\* that is outstanding at that moment is resolved with the empty list.
C10_Step ==
    (CrashHandled /\ ~terminated) =>
        \A id \in CallIds :
            (calls[id].kind = "requestChunk" /\ Outstanding(id))
               => (calls'[id].pc = "resolved" /\ calls'[id].result = "empty")
\* C10: every handling of the error event is such a step.
C10_CrashResolvesAll == [][C10_Step]_vars

\* C11: the handling of the worker's error event invokes the error callback with
\* the crash error exactly once, however many chunk requests are pending, and
\* not at all when terminate() was called before; nothing else reports a crash
\* and the handling reports no other error.
C11_Step ==
    IF CrashHandled
    THEN /\ crashErrors' = crashErrors + (IF terminated THEN 0 ELSE 1)
         /\ lastOnError' = (IF terminated THEN lastOnError ELSE "crash")
         /\ \A id \in CallIds : calls'[id].reported = calls[id].reported
    ELSE crashErrors' = crashErrors
\* C11: every step of the service is such a step.
C11_OneCrashError == [][C11_Step]_vars
C11_Witness ==
    /\ crashErrors = 1 /\ lastOnError = "crash"
    /\ \E i, j \in CallIds :
          /\ i # j
          /\ calls[i].kind = "requestChunk" /\ calls[i].result = "empty"
          /\ calls[j].kind = "requestChunk" /\ calls[j].result = "empty"

\* C12: the rejection of the load a prefetchBatch started is reported through
\* the error callback exactly once when terminate() has not been called by
\* then, and not at all otherwise; nothing else is reported for the call, which
\* never waits on another caller's load.
C12_Step ==
    \A id \in CallIds :
        calls'[id].kind = "prefetchBatch" =>
            /\ calls'[id].pc # "waitLoad"
            /\ IF calls[id].pc # "rejected" /\ calls'[id].pc = "rejected"
               THEN /\ calls'[id].reported = calls[id].reported + (IF terminated' THEN 0 ELSE 1)
                    /\ ~terminated' => lastOnError' = "load"
                    /\ terminated' => lastOnError' = lastOnError
               ELSE calls'[id].reported = calls[id].reported
            /\ calls'[id].reported <= 1
\* C12: every step of the service is such a step.
C12_PrefetchReportsOnce == [][C12_Step]_vars
C12_Witness ==
    \E i, j \in CallIds :
        /\ calls[i].kind = "prefetchBatch" /\ calls[i].pc = "rejected"
        /\ calls[i].result = "fetch" /\ calls[i].reported = 1
        /\ calls[j].kind = "prefetchBatch" /\ calls[j].pc = "rejected"
        /\ calls[j].result = "fetch" /\ calls[j].reported = 0
        /\ terminated

\* A step in which the last attempt of the load run by call i fails.
Exhausts(i) ==
    /\ calls[i].pc = "fetching" /\ calls[i].attempt = MAX_RETRIES
    /\ calls'[i].pc = "rejected"
\* The requestChunk call j is rejected with the fetch error in this step, no
\* message goes to the worker and no resolver of j is registered.
RejectedUnsent(j) ==
    /\ calls'[j].pc = "rejected" /\ calls'[j].result = "fetch"
    /\ calls'[j].settles = calls[j].settles + 1
    /\ toUnit' = toUnit
    /\ \A c \in Chunks : pendingChunkRequests'[c] # j

\* C13: when a load fails after all retries, every requestChunk that depends on
\* it, the one that started it and those that joined it and wait for it, is
\* rejected with the fetch error; no request-chunk message is sent for it and
\* no resolver is registered for it.
C13_Step ==
    \A i, j \in CallIds :
        (/\ Exhausts(i)
         /\ calls[j].kind = "requestChunk" /\ calls[j].batch = calls[i].batch
         /\ j = i \/ calls[j].pc = "waitLoad")
           => RejectedUnsent(j)
\* C13: every step of the service is such a step.
C13_DependentsRejected == [][C13_Step]_vars

\* C13, amended: as C13 for the requestChunk that started the load and for those
\* that are registered in the waiter list of its batch at the time of the
\* failure (terminate() empties the list; a caller it dropped stays pending).
C13_AmendedStep ==
    \A i, j \in CallIds :
        (/\ Exhausts(i)
         /\ calls[j].kind = "requestChunk"
         /\ j = i \/ InSeq(j, batchProcessedCallbacks[calls[i].batch]))
           => RejectedUnsent(j)
\* C13, amended: every step of the service is such a step.
C13_RegisteredRejected == [][C13_AmendedStep]_vars
C13_Witness ==
    /\ ~terminated
    /\ \E i, j \in CallIds :
          /\ i # j /\ calls[i].batch = calls[j].batch
          /\ calls[i].kind = "requestChunk" /\ calls[i].pc = "rejected" /\ calls[i].result = "fetch"
          /\ calls[j].kind = "requestChunk" /\ calls[j].pc = "rejected" /\ calls[j].result = "fetch"
          /\ \A c \in Chunks : pendingChunkRequests[c] \notin {i, j}

\* C14: a load whose first two fetch attempts fail and whose third succeeds
\* reports nothing through the error callback: the failed attempts leave the
\* callback alone, the success clears the error, sends load-batch and waits for
\* the acknowledgment; when batch-processed is handled the batch is Loaded, no
\* longer Loading, and the load's promise is resolved (its caller goes on).
C14_Step ==
    \A id \in CallIds :
        /\ (/\ calls[id].pc = "fetching" /\ calls'[id] # calls[id]
            /\ calls'[id].pc \in {"delay", "fetching"})
              => /\ calls'[id].reported = 0
                 /\ lastOnError' = lastOnError
        /\ (/\ calls[id].pc = "fetching" /\ calls[id].attempt = MAX_RETRIES
            /\ calls'[id].pc = "waitProcessed")
              => /\ calls'[id].reported = 0 /\ lastOnError' = "null"
                 /\ calls'[id].attempt = MAX_RETRIES
                 /\ InSeq(id, batchProcessedCallbacks'[calls[id].batch])
                 /\ worker = "set" =>
                       toUnit' = Append(toUnit, Msg("load-batch", calls[id].batch, "none"))
        /\ (/\ calls[id].pc = "waitProcessed" /\ calls[id].attempt = MAX_RETRIES
            /\ calls'[id] # calls[id] /\ ~terminated')
              => /\ Head(fromUnit) = Msg("batch-processed", calls[id].batch, "none")
                 /\ calls[id].batch \in loadedBatches'
                 /\ calls[id].batch \notin loadingBatches'
                 /\ calls'[id].reported = 0
                 /\ IF calls[id].kind \in {"requestChunk", "init"}
                    THEN calls'[id].pc = "waitChunk"
                    ELSE calls'[id].pc = "resolved" /\ calls'[id].result = "loaded"
\* C14: every step of the service is such a step.
C14_ThirdAttemptSucceeds == [][C14_Step]_vars
C14_Witness ==
    \E id \in CallIds :
        /\ calls[id].kind = "prefetchBatch" /\ calls[id].pc = "waitProcessed"
        /\ calls[id].attempt = MAX_RETRIES /\ calls[id].reported = 0
        /\ lastOnError = "null" /\ ~terminated
        /\ fromUnit # <<>> /\ Head(fromUnit) = Msg("batch-processed", calls[id].batch, "none")

\* C15: prefetchBatch(b) does something only when b is neither Loaded nor
\* Loading: an invocation of prefetchBatch that touches the service's state
\* finds its batch in neither set and starts the fetch itself; none is ever a
\* waiter of a load or completes without a load of its own, and the step sends
\* nothing to the worker.
C15_Step ==
    \A id \in CallIds :
        Arrives(id, "prefetchBatch")
           => /\ calls'[id].batch \notin loadedBatches \cup loadingBatches
              /\ calls'[id].pc = "fetching" /\ calls'[id].attempt = 1
              /\ loadingBatches' = loadingBatches \cup {calls'[id].batch}
              /\ loadedBatches' = loadedBatches
              /\ batchProcessedCallbacks' = batchProcessedCallbacks
              /\ pendingChunkRequests' = pendingChunkRequests
              /\ toUnit' = toUnit
\* C15: every step of the service is such a step.
C15_PrefetchNoOp == [][C15_Step]_vars
C15_Witness ==
    /\ Usable /\ HasFree
    /\ isBatchLoaded(0)
    /\ \E id \in CallIds : /\ calls[id].kind = "prefetchBatch" /\ calls[id].pc = "fetching"
                           /\ calls[id].batch \in loadingBatches

\* A call that takes part in the load of batch 5: it runs the load (fetch
\* attempts, retry delays, processing by the worker) or waits for it.
LoadsFive(id) ==
    calls[id].batch = 5 /\ calls[id].pc \in {"fetching", "delay", "waitProcessed", "waitLoad"}
BatchFiveProcessed ==
    /\ fromUnit # <<>> /\ Head(fromUnit) = Msg("batch-processed", 5, "none")
    /\ fromUnit' = Tail(fromUnit)

\* C16: prefetchBatch(5) twice and then requestChunk(600), batch 5 not loaded:
\* one call runs the load of batch 5, the second prefetch finds the batch
\* Loading and does nothing, requestChunk(600) joins as a waiter and starts no
\* fetch; while the load goes on isBatchLoaded(5) is false, and it becomes true
\* in the very step that handles batch-processed(5), which resumes all callers.
C16_Step ==
    /\ Cardinality({id \in CallIds : calls[id].batch = 5
                                     /\ calls[id].pc \in {"fetching", "delay", "waitProcessed"}
                                     /\ ~terminated}) <= 1
    /\ \A id \in CallIds :
          /\ (LoadsFive(id) /\ ~terminated) => (~isBatchLoaded(5) /\ 5 \in loadingBatches)
          /\ Arrives(id, "prefetchBatch") => 5 \notin loadedBatches \cup loadingBatches
          /\ (Arrives(id, "requestChunk") /\ 5 \in loadingBatches)
                => /\ calls'[id].chunk = 600 /\ calls'[id].batch = 5
                   /\ calls'[id].pc = "waitLoad"
                   /\ InSeq(id, batchProcessedCallbacks'[5])
          /\ (LoadsFive(id) /\ ~terminated /\ BatchFiveProcessed)
                => IF calls[id].kind \in {"requestChunk", "init"}
                   THEN calls'[id].pc = "waitChunk"
                   ELSE calls'[id].pc = "resolved"
    /\ (~isBatchLoaded(5) /\ BatchFiveProcessed) => isBatchLoaded(5)'
    /\ (~isBatchLoaded(5) /\ isBatchLoaded(5)') => BatchFiveProcessed
\* C16: every step of the service is such a step.
C16_SingleLoadOfFive == [][C16_Step]_vars
C16_Witness ==
    /\ ~isBatchLoaded(5) /\ ~terminated
    /\ \E i, j \in CallIds :
          /\ calls[i].kind = "prefetchBatch" /\ calls[i].batch = 5
          /\ calls[i].pc = "waitProcessed" /\ calls[i].attempt = 2
          /\ calls[j].kind = "requestChunk" /\ calls[j].chunk = 600
          /\ calls[j].pc = "waitLoad"
          /\ batchProcessedCallbacks[5] = <<j, i>>

\* C17: a second terminate() right after the first changes nothing: the first
\* leaves no timer to cancel and no worker to stop or to post to, and applying
\* terminate() to the fields it left gives the same fields, so that no call is
\* settled and no error is reported by the second.
C17_TerminateIdempotent ==
    LET once == TerminateSt(St)
        twice == TerminateSt(once)
    IN  /\ twice = once
        /\ once.terminated /\ once.worker = "null" /\ once.pendingRetryTimeouts = {}
        /\ once.loadedBatches = {} /\ once.loadingBatches = {}
        /\ \A b \in Batches : once.batchProcessedCallbacks[b] = <<>>
        /\ \A c \in Chunks : once.pendingChunkRequests[c] = 0
        /\ once.calls = calls /\ once.lastOnError = lastOnError
        /\ once.crashErrors = crashErrors
        /\ terminated => (worker = "null" /\ pendingRetryTimeouts = {})
C17_Witness ==
    /\ terminated /\ St = TerminateSt(St)
    /\ \E i, j \in CallIds : calls[i].pc = "delay" /\ calls[j].pc = "waitLoad"

\* C18: after terminate() no promise that was pending when it was called is
\* resolved or rejected, whatever fetch, timer or worker event completes later.
C18_Step ==
    \A id \in CallIds :
        (terminated /\ Outstanding(id)) => calls'[id].settles = calls[id].settles
\* C18: every step of the service is such a step.
C18_NothingSettledAfterTerminate == [][C18_Step]_vars

\* C18, amended: after terminate() no promise that was pending when it was
\* called is resolved; a chunk request whose resolver was registered, a waiter
\* of a load and a load in its retry delay stay as they are for ever; a promise
\* is rejected only by the failure of its own fetch that was in flight at
\* terminate(), by "ready" reaching init, or by a request-batch message for the
\* batch whose acknowledgment it awaits.
C18_AmendedStep ==
    \A id \in CallIds :
        (terminated /\ Outstanding(id))
           => /\ calls'[id].pc # "resolved"
              /\ calls[id].pc \in {"waitChunk", "waitLoad", "delay"} => calls'[id] = calls[id]
              /\ calls'[id].pc = "rejected"
                    => /\ calls'[id].result \in {"terminated", "fetch"}
                       /\ calls[id].pc \in {"fetching", "waitReady", "waitProcessed"}
\* C18, amended: every step of the service is such a step.
C18_OnlyRejectedAfterTerminate == [][C18_AmendedStep]_vars
C18_Witness ==
    /\ terminated
    /\ \E i, j \in CallIds :
          /\ calls[i].kind = "requestChunk" /\ calls[i].pc = "rejected"
          /\ calls[i].result = "terminated"
          /\ calls[j].kind = "requestChunk" /\ calls[j].pc = "waitLoad"
          /\ calls[j].batch = calls[i].batch

\* A step in which the service handles a message or the error event of the worker.
UnitEventHandled == fromUnit # <<>> /\ fromUnit' = Tail(fromUnit)

\* C19: a worker message or error event handled after terminate() invokes the
\* error callback for nothing and leaves the Loaded set, the Loading set, the
\* pending chunk requests and the waiter lists as they are.
C19_Step ==
    (terminated /\ UnitEventHandled)
       => /\ lastOnError' = lastOnError /\ crashErrors' = crashErrors
          /\ \A id \in CallIds : calls'[id].reported = calls[id].reported
                                 /\ calls'[id].cleared = calls[id].cleared
          /\ loadedBatches' = loadedBatches
          /\ loadingBatches' = loadingBatches
          /\ pendingChunkRequests' = pendingChunkRequests
          /\ batchProcessedCallbacks' = batchProcessedCallbacks
\* C19: every step of the service is such a step.
C19_InertAfterTerminate == [][C19_Step]_vars

\* What init() has sent and loaded while it waits for "ready": the init message only.
OnlyInitSent ==
    /\ toUnit' \in {<<>>, <<Msg("init", 0, "none")>>}
    /\ unitBatches' = {}
    /\ loadedBatches' = {} /\ loadingBatches' = {}
    /\ \A c \in Chunks : pendingChunkRequests'[c] = 0
\* The steps of init() up to its request for chunk 0, and its return.
InitOrder ==
    /\ (calls[InitId].pc = "idle" /\ calls'[InitId].pc # "idle")
          => (calls'[InitId].pc = "waitReady" /\ toUnit' = <<Msg("init", 0, "none")>>)
    /\ calls'[InitId].pc = "waitReady" => OnlyInitSent
    /\ (calls[InitId].pc = "waitReady" /\ calls'[InitId].pc # "waitReady")
          => (fromUnit # <<>> /\ Head(fromUnit).type = "ready")
    /\ (calls[InitId].pc # "waitChunk" /\ calls'[InitId].pc = "waitChunk")
          => (calls'[InitId].chunk = InitialChunks[1] /\ isBatchLoaded(0)')
    /\ (calls[InitId].pc # "resolved" /\ calls'[InitId].pc = "resolved")
          => /\ calls[InitId].pc = "waitChunk"
             /\ calls[InitId].chunk = InitialChunks[Len(InitialChunks)]
             /\ isBatchLoaded(0)'
             /\ \A c \in Chunks : pendingChunkRequests'[c] = 0
\* init() leaves its wait for a chunk in this step / returns in this step.
InitChunkAnswered == calls[InitId].pc = "waitChunk" /\ calls'[InitId] # calls[InitId]
InitReturns == calls[InitId].pc # "resolved" /\ calls'[InitId].pc = "resolved"

\* C20: init() sends the init message first and nothing else before "ready" is
\* received; it asks for chunk 0 once batch 0 is Loaded and returns on the
\* receipt of the chunk-response for chunk 2, every chunk before having been
\* answered by the worker too (the error event has resolved none), with
\* isBatchLoaded(0) true and no chunk request pending.
C20_Step ==
    /\ InitOrder
    /\ InitReturns
          => /\ Head(fromUnit).type = "chunk-response"
             /\ Head(fromUnit).arg = InitialChunks[Len(InitialChunks)]
             /\ crashErrors' = 0
\* C20: every step of the service is such a step.
C20_InitOrder == [][C20_Step]_vars

\* C20, amended: as C20, but init() goes on from a chunk, and returns from the
\* last, when the chunk-response for it is received or when the worker's error
\* event is handled, which resolves the pending chunk with the empty list; the
\* chunks are asked for in the order 0, 1, 2.
C20_AmendedStep ==
    /\ InitOrder
    /\ InitChunkAnswered
          => /\ \/ /\ Head(fromUnit).type = "chunk-response"
                   /\ Head(fromUnit).arg = calls[InitId].chunk
                   /\ crashErrors' = 0
                \/ /\ Head(fromUnit).type = "crash"
                   /\ crashErrors' = 1
             /\ fromUnit' = Tail(fromUnit)
             /\ IF calls[InitId].chunk = InitialChunks[Len(InitialChunks)]
                THEN InitReturns
                ELSE /\ calls'[InitId].pc = "waitChunk"
                     /\ calls'[InitId].chunk = InitialChunks[InitPos(calls[InitId].chunk) + 1]
\* C20, amended: every step of the service is such a step.
C20_InitOrderOrCrash == [][C20_AmendedStep]_vars
C20_Witness ==
    /\ calls[InitId].pc = "resolved" /\ calls[InitId].result = "data"
    /\ isBatchLoaded(0) /\ crashErrors = 0
    /\ \A c \in Chunks : pendingChunkRequests[c] = 0
    /\ \A id \in CallIds \ {InitId} : calls[id].pc = "idle"

\* C21: init() is rejected when the worker cannot be started, that is when its
\* error event is handled while init() waits for "ready", and when the third
\* fetch attempt of batch 0 fails; it is not left waiting.
C21_Step ==
    /\ (CrashHandled /\ ~terminated /\ calls[InitId].pc = "waitReady")
          => calls'[InitId].pc = "rejected"
    /\ (/\ calls[InitId].pc = "fetching" /\ calls[InitId].attempt = MAX_RETRIES
        /\ calls'[InitId] # calls[InitId] /\ calls'[InitId].pc # "waitProcessed")
          => (calls'[InitId].pc = "rejected" /\ calls'[InitId].result = "fetch")
\* C21: every step of the service is such a step.
C21_InitFails == [][C21_Step]_vars

\* C22: a request-batch(b) message is handled as prefetchBatch(b) is: it changes
\* nothing when b is Loaded or Loading, and when the load it started
\* is rejected before terminate() the error callback is invoked with the
\* error (the rejection does not stay without a handler).
C22_Step ==
    \A id \in CallIds :
        /\ (/\ Arrives(id, "requestBatch") /\ ~terminated
            /\ calls'[id].batch \in loadedBatches \cup loadingBatches)
              => /\ loadedBatches' = loadedBatches /\ loadingBatches' = loadingBatches
                 /\ batchProcessedCallbacks' = batchProcessedCallbacks
                 /\ pendingChunkRequests' = pendingChunkRequests
                 /\ toUnit' = toUnit
        /\ (/\ calls'[id].kind = "requestBatch" /\ ~terminated'
            /\ calls[id].pc # "rejected" /\ calls'[id].pc = "rejected")
              => (calls'[id].reported = calls[id].reported + 1 /\ lastOnError' = "load")
\* C22: every step of the service is such a step.
C22_RequestBatchAsPrefetch == [][C22_Step]_vars

\* C23: when the service handles an "error" message of the worker it invokes
\* the error callback with the processing error and goes on: the worker is
\* kept, and the Loaded set, the Loading set and the pending requests are as
\* they were.
C23_Step ==
    (/\ fromUnit # <<>> /\ Head(fromUnit).type = "error" /\ fromUnit' = Tail(fromUnit)
     /\ ~terminated)
       => /\ lastOnError' = "processing"
          /\ worker' = worker /\ unitStatus' = unitStatus /\ ~terminated'
          /\ loadedBatches' = loadedBatches /\ loadingBatches' = loadingBatches
          /\ pendingChunkRequests' = pendingChunkRequests
          /\ batchProcessedCallbacks' = batchProcessedCallbacks
\* C23: every step of the service is such a step.
C23_ProcessingErrorReported == [][C23_Step]_vars

\* The clear-batch(b) message is posted in this step, and nothing else is.
ClearSent(b) == toUnit' = Append(toUnit, Msg("clear-batch", b, "none"))

\* C25: a clear-batch(b) message is sent only by a step that finds b Loaded;
\* that step sends this one message, removes b and only b from the Loaded set
\* and leaves the Loading set, the waiter lists, the retry timers, the pending
\* chunk requests and every call as they are; before terminate() nothing else
\* removes a batch from the Loaded set.
C25_Step ==
    \A b \in Batches :
        /\ ClearSent(b)
              => /\ b \in loadedBatches
                 /\ loadedBatches' = loadedBatches \ {b}
                 /\ loadingBatches' = loadingBatches
                 /\ batchProcessedCallbacks' = batchProcessedCallbacks
                 /\ pendingRetryTimeouts' = pendingRetryTimeouts
                 /\ pendingChunkRequests' = pendingChunkRequests
                 /\ calls' = calls
                 /\ lastOnError' = lastOnError /\ worker' = worker
                 /\ UNCHANGED unitVars
        /\ (b \in loadedBatches /\ b \notin loadedBatches' /\ ~terminated') => ClearSent(b)
\* C25: every step of the service is such a step.
C25_ClearBatchFrame == [][C25_Step]_vars
C25_Witness ==
    /\ toUnit # <<>> /\ toUnit[Len(toUnit)].type = "clear-batch"
    /\ toUnit[Len(toUnit)].arg \notin loadedBatches
    /\ \E id \in CallIds : /\ calls[id].pc = "delay" /\ id \in pendingRetryTimeouts
                           /\ calls[id].batch \in loadingBatches
                           /\ calls[id].batch # toUnit[Len(toUnit)].arg

\* The messages posted to the worker in this step.
NewlySent ==
    IF Len(toUnit') > Len(toUnit)
    THEN {toUnit'[i] : i \in (Len(toUnit) + 1)..Len(toUnit')}
    ELSE {}

\* C26: a request-chunk(c) message is posted only in a step after which the
\* batch of c is Loaded; and, the messages being handled in the order they were
\* posted, when a request-chunk is the next message of the running worker the
\* worker holds the batch of its chunk, so that every chunk-response carries
\* the chunk's data.
C26_Step ==
    /\ \A m \in NewlySent : m.type = "request-chunk" => isBatchLoaded(BatchOf(m.arg))'
    /\ (unitStatus' = "running" /\ toUnit' # <<>> /\ Head(toUnit').type = "request-chunk")
          => BatchOf(Head(toUnit').arg) \in unitBatches'
    /\ \A i \in 1..Len(fromUnit') :
          fromUnit'[i].type = "chunk-response" => fromUnit'[i].trips = "data"
\* C26: every step of the service is such a step.
C26_ChunkRequestedWhenLoaded == [][C26_Step]_vars
C26_Witness ==
    /\ unitStatus = "running"
    /\ \E i, j \in 1..Len(toUnit) :
          /\ i < j
          /\ toUnit[i].type = "request-chunk"
          /\ toUnit[j] = Msg("clear-batch", BatchOf(toUnit[i].arg), "none")
          /\ BatchOf(toUnit[i].arg) \in unitBatches
          /\ ~isBatchLoaded(BatchOf(toUnit[i].arg))

\* The worker's acknowledgment of batch b is handled in this step.
BatchProcessedHandled(b) ==
    /\ fromUnit # <<>> /\ Head(fromUnit) = Msg("batch-processed", b, "none")
    /\ fromUnit' = Tail(fromUnit)
LoadBatchMsgs(q, b) == {i \in 1..Len(q) : q[i].type \in {"load-batch", "batch-processed"}
                                          /\ q[i].arg = b}

\* C27: the order of one load of batch b, before terminate(): the call that
\* starts it puts b in the Loading set; while it fetches or waits to retry, b is
\* Loading, not Loaded, and no load-batch(b) or batch-processed(b) is under way;
\* the successful fetch sends load-batch(b) and leaves b Loading, not Loaded,
\* and its caller unsettled; b becomes Loaded only in the step that handles
\* batch-processed(b), which takes b out of Loading, and the initiator and the
\* waiters go on only in that step.
C27_Step ==
    /\ \A id \in CallIds :
          LET b == calls'[id].batch
          IN  /\ (calls[id].pc \notin {"fetching", "delay"} /\ calls'[id].pc = "fetching")
                    => /\ calls'[id].attempt = 1
                       /\ b \in loadingBatches' /\ b \notin loadedBatches'
                       /\ toUnit' = toUnit
              /\ (InFlight(id)' /\ ~terminated')
                    => /\ b \in loadingBatches' /\ b \notin loadedBatches'
                       /\ LoadBatchMsgs(toUnit', b) = {} /\ LoadBatchMsgs(fromUnit', b) = {}
              /\ (/\ calls[id].pc = "fetching" /\ ~terminated
                  /\ calls'[id].pc \notin {"fetching", "delay", "rejected"})
                    => /\ calls'[id].pc = "waitProcessed"
                       /\ NewlySent = {Msg("load-batch", b, "none")}
                       /\ b \in loadingBatches' /\ b \notin loadedBatches'
                       /\ calls'[id].settles = calls[id].settles
                       /\ InSeq(id, batchProcessedCallbacks'[b])
              /\ (/\ calls[id].pc \in {"waitProcessed", "waitLoad"} /\ ~terminated'
                  /\ calls'[id] # calls[id] /\ calls'[id].pc # "rejected")
                    => /\ BatchProcessedHandled(calls[id].batch)
                       /\ isBatchLoaded(calls[id].batch)'
                       /\ calls[id].batch \notin loadingBatches'
    /\ \A b \in Batches :
          (~isBatchLoaded(b) /\ isBatchLoaded(b)')
             => /\ BatchProcessedHandled(b)
                /\ b \notin loadingBatches'
                /\ ~terminated => b \in loadingBatches
\* C27: every step of the service is such a step.
C27_LoadOrder == [][C27_Step]_vars
C27_Witness ==
    /\ ~terminated
    /\ \E b \in Batches :
          /\ fromUnit # <<>> /\ Head(fromUnit) = Msg("batch-processed", b, "none")
          /\ b \in loadingBatches /\ ~isBatchLoaded(b)
          /\ Len(batchProcessedCallbacks[b]) = 2
          /\ b \in unitBatches

\* C30: one retried load (fetchBatchWithRetry) makes at least one and at most
\* MAX_RETRIES fetch attempts, numbered from 1 and increasing by one; between
\* two consecutive attempts exactly one retry delay is waited (a registered
\* timer that fires), and no delay follows the last attempt; after the first
\* successful attempt no further attempt is made; and the load fails with the
\* fetch error only from a failure of attempt MAX_RETRIES, raising the error
\* of that last attempt.
C30_Step ==
    \A id \in CallIds :
        /\ calls'[id].pc \in {"fetching", "delay"} => calls'[id].attempt \in 1..MAX_RETRIES
        /\ (calls[id].pc \notin {"fetching", "delay"} /\ calls'[id].pc \in {"fetching", "delay"})
              => /\ calls[id].pc \in {"idle", "waitReady"}
                 /\ calls'[id].pc = "fetching" /\ calls'[id].attempt = 1
                 /\ calls'[id].lastError = 0
        /\ (calls[id].pc = "fetching" /\ calls'[id].pc = "fetching")
              => calls'[id].attempt = calls[id].attempt
        /\ (calls[id].pc = "fetching" /\ calls'[id].pc = "delay")
              => /\ calls[id].attempt < MAX_RETRIES
                 /\ calls'[id].attempt = calls[id].attempt
                 /\ calls'[id].lastError = calls[id].attempt
                 /\ id \notin pendingRetryTimeouts /\ id \in pendingRetryTimeouts'
        /\ (calls[id].pc = "delay" /\ calls'[id].pc = "delay")
              => calls'[id].attempt = calls[id].attempt
        /\ (calls[id].pc = "delay" /\ calls'[id].pc # "delay")
              => /\ id \in pendingRetryTimeouts /\ id \notin pendingRetryTimeouts'
                 /\ calls'[id].pc = "fetching"
                 /\ calls'[id].attempt = calls[id].attempt + 1
        /\ (calls[id].pc = "fetching" /\ calls'[id].pc \notin {"fetching", "delay", "rejected"})
              => /\ id \notin pendingRetryTimeouts'
                 /\ calls'[id].lastError = 0
        /\ (calls[id].pc \in {"fetching", "delay"} /\ calls'[id].pc = "rejected"
              /\ calls'[id].result = "fetch")
              => /\ Exhausts(id)
                 /\ calls'[id].lastError = MAX_RETRIES
                 /\ id \notin pendingRetryTimeouts'
        /\ Exhausts(id) => /\ calls'[id].result = "fetch" /\ calls'[id].lastError = MAX_RETRIES
C30_RetriedLoad == [][C30_Step]_vars
\* A load was rejected with the error of its third attempt while the service runs.
C30_Witness ==
    /\ ~terminated
    /\ \E id \in CallIds :
          /\ calls[id].pc = "rejected" /\ calls[id].result = "fetch"
          /\ calls[id].lastError = MAX_RETRIES /\ calls[id].settles = 1

\* A load of batch b ends in this step: its acknowledgment is handled, or the
\* last attempt of the call that started it fails.
LoadExhausted(b) == \E i \in CallIds : Exhausts(i) /\ calls[i].batch = b
\* Call j, waiting for the load of its batch, is settled with the load's outcome.
WaiterSettled(j) ==
    LET b == calls[j].batch
    IN  /\ BatchProcessedHandled(b)
           => /\ calls'[j].pc \in {"waitChunk", "resolved"}
              /\ calls'[j].kind # "requestChunk"
                    => calls'[j].result = "loaded" /\ calls'[j].settles = calls[j].settles + 1
        /\ LoadExhausted(b)
           => /\ calls'[j].pc = "rejected" /\ calls'[j].result = "fetch"
              /\ calls'[j].settles = calls[j].settles + 1
\* A waiter goes on only when the load of its batch ends, and none is settled twice.
WaiterOnlyAtEnd(j) ==
    /\ (calls[j].pc = "waitLoad" /\ calls'[j] # calls[j])
          => BatchProcessedHandled(calls[j].batch) \/ LoadExhausted(calls[j].batch)
    /\ calls'[j].settles <= 1

\* C28: every caller that joined an in-flight load of batch b as a waiter is
\* settled once with the load's outcome in the step that ends the load: it is
\* resolved (goes on) when batch-processed(b) is handled and rejected with the
\* fetch error when the last attempt fails; it leaves its wait in no other step,
\* and before terminate() no caller waits for a batch that is not Loading.
C28_Step ==
    \A j \in CallIds :
        /\ calls[j].pc = "waitLoad" => WaiterSettled(j)
        /\ WaiterOnlyAtEnd(j)
        /\ (calls'[j].pc = "waitLoad" /\ ~terminated') => calls'[j].batch \in loadingBatches'
\* C28: every step of the service is such a step.
C28_WaitersSettled == [][C28_Step]_vars

\* C28, amended: as C28 for the callers registered in the waiter list of b at
\* the time the load ends (terminate() empties the list; a waiter it dropped
\* stays pending): each is registered once, is settled once with the load's
\* outcome, and the list is empty afterwards.
C28_AmendedStep ==
    \A j \in CallIds :
        LET b == calls[j].batch
            q == batchProcessedCallbacks[b]
        IN  /\ (calls[j].pc = "waitLoad" /\ InSeq(j, q))
                  => /\ WaiterSettled(j)
                     /\ Cardinality({n \in 1..Len(q) : q[n] = j}) = 1
                     /\ (BatchProcessedHandled(b) \/ LoadExhausted(b))
                           => batchProcessedCallbacks'[b] = <<>>
            /\ WaiterOnlyAtEnd(j)
            /\ (calls'[j].pc = "waitLoad" /\ ~terminated')
                  => /\ calls'[j].batch \in loadingBatches'
                     /\ InSeq(j, batchProcessedCallbacks'[calls'[j].batch])
\* C28, amended: every step of the service is such a step.
C28_RegisteredWaitersSettled == [][C28_AmendedStep]_vars
\* A waiter (it made no fetch attempt of its own) was rejected with the fetch
\* error of the load it had joined, while the service runs.
C28_Witness ==
    /\ ~terminated
    /\ \E i, j \in CallIds :
          /\ i # j /\ calls[i].batch = calls[j].batch
          /\ calls[i].pc = "rejected" /\ calls[i].result = "fetch"
          /\ calls[i].lastError = MAX_RETRIES
          /\ calls[j].pc = "rejected" /\ calls[j].result = "fetch"
          /\ calls[j].lastError = 0 /\ calls[j].settles = 1

\* The state of batch b as the service sees it.
BatchState(b) ==
    IF b \in loadedBatches THEN "Loaded"
    ELSE IF b \in loadingBatches THEN "Loading" ELSE "NotLoaded"
\* A call starts the first fetch attempt of a load of batch b in this step.
FetchDispatched(b) ==
    \E id \in CallIds :
        /\ ~InFlight(id) /\ calls'[id].pc = "fetching"
        /\ calls'[id].batch = b /\ calls'[id].attempt = 1

\* C29: before terminate() no batch is Loaded and Loading at once, and the state
\* of a batch changes only in these steps: NotLoaded -> Loading when a call
\* starts the fetch of the batch, Loading -> Loaded when batch-processed is
\* handled, Loading -> NotLoaded when the last attempt of its load fails, and
\* Loaded -> NotLoaded when clearBatch sends clear-batch; a fetch is started
\* only for a batch that is NotLoaded.
C29_Step ==
    ~terminated' =>
        \A b \in Batches :
            /\ ~(b \in loadedBatches' /\ b \in loadingBatches')
            /\ BatchState(b)' # BatchState(b)
                  => \/ /\ BatchState(b) = "NotLoaded" /\ BatchState(b)' = "Loading"
                        /\ FetchDispatched(b)
                     \/ /\ BatchState(b) = "Loading" /\ BatchState(b)' = "Loaded"
                        /\ BatchProcessedHandled(b)
                     \/ /\ BatchState(b) = "Loading" /\ BatchState(b)' = "NotLoaded"
                        /\ LoadExhausted(b)
                     \/ /\ BatchState(b) = "Loaded" /\ BatchState(b)' = "NotLoaded"
                        /\ ClearSent(b)
            /\ FetchDispatched(b)
                  => BatchState(b) = "NotLoaded" /\ BatchState(b)' = "Loading"
\* C29: every step of the service is such a step.
C29_BatchTransitions == [][C29_Step]_vars
\* A batch that was Loaded and then evicted is Loading again.
C29_Witness ==
    /\ ~terminated
    /\ \E b \in Batches :
          /\ BatchState(b) = "Loading"
          /\ InSeq(Msg("clear-batch", b, "none"), toUnit)
          /\ \E id \in CallIds : InFlight(id) /\ calls[id].batch = b

\* The queries of the given kind among those a fetchBatch call issued.
IssuedOf(kind) == {i \in 1..Len(issued) : issued[i].query = kind}

\* C31: a fetchBatch(b) call issues exactly one range query, over
\* [windowStart + b * batchSize, windowStart + (b + 1) * batchSize); it issues
\* exactly one overlap query when b = 0 and none otherwise; and the range of
\* batch b ends where the range of batch b + 1 starts, each range being non-empty.
C31_Queries ==
    mergePc = "done" =>
        /\ Cardinality(IssuedOf("range")) = 1
        /\ \A i \in IssuedOf("range") :
              /\ issued[i].from = config.realWindowStartMs + mergeBatch * SIM_BATCH_SIZE_MS
              /\ issued[i].to = config.realWindowStartMs + (mergeBatch + 1) * SIM_BATCH_SIZE_MS
              /\ issued[i].from < issued[i].to
              /\ getTripsInRange(mergeBatch + 1, config).from = issued[i].to
        /\ Cardinality(IssuedOf("overlap")) = (IF mergeBatch = 0 THEN 1 ELSE 0)
        /\ Len(issued) = (IF mergeBatch = 0 THEN 2 ELSE 1)
\* fetchBatch returned for batch 5 with a window that does not start at 0.
C31_Witness ==
    /\ mergePc = "done" /\ mergeBatch = 5
    /\ config.realWindowStartMs = 1000
    /\ Len(issued) = 1 /\ issued[1].to = 1000 + 6 * SIM_BATCH_SIZE_MS

\* requestChunk call id is settled: resolved with the trips of a chunk-response,
\* or rejected with the fetch error of the load.
ChunkSettled(id) ==
    \/ calls[id].pc = "resolved" /\ calls[id].result \in {"data", "empty"}
    \/ calls[id].pc = "rejected" /\ calls[id].result = "fetch"

ChunkResponseHandled(c) ==
    /\ fromUnit # <<>> /\ Head(fromUnit).type = "chunk-response" /\ Head(fromUnit).arg = c
    /\ fromUnit' = Tail(fromUnit)

\* C33: handling chunk-response(c) resolves the call whose resolver is
\* registered for c, a requestChunk with exactly the trips of the message,
\* removes the entry of c, and leaves every other registered resolver and
\* every other call as they are; without a resolver for c nothing changes.
C33_Step ==
    \A c \in Chunks :
        ChunkResponseHandled(c) =>
            LET r == pendingChunkRequests[c]
            IN  /\ \A d \in Chunks \ {c} :
                      pendingChunkRequests[d] # 0
                         => pendingChunkRequests'[d] = pendingChunkRequests[d]
                /\ \A id \in CallIds \ {r} : calls'[id] = calls[id]
                /\ r = 0 => UNCHANGED svcVars
                /\ r # 0 =>
                      /\ pendingChunkRequests'[c] = 0
                      /\ calls[r].pc = "waitChunk" /\ calls[r].chunk = c
                      /\ calls[r].kind = "requestChunk"
                            => /\ calls'[r].pc = "resolved"
                               /\ calls'[r].result = Head(fromUnit).trips
                               /\ calls'[r].settles = calls[r].settles + 1
                               /\ \A d \in Chunks \ {c} :
                                     pendingChunkRequests'[d] = pendingChunkRequests[d]
\* C33: every step of the service is such a step.
C33_ChunkResponseFrame == [][C33_Step]_vars
\* Two requestChunk calls for different indices wait for their responses and
\* the response for the one registered last is the next message.
C33_Witness ==
    \E i, j \in CallIds :
        /\ calls[i].kind = "requestChunk" /\ calls[j].kind = "requestChunk"
        /\ calls[i].pc = "waitChunk" /\ calls[j].pc = "waitChunk"
        /\ calls[i].chunk # calls[j].chunk
        /\ pendingChunkRequests[calls[i].chunk] = i /\ pendingChunkRequests[calls[j].chunk] = j
        /\ fromUnit # <<>> /\ Head(fromUnit).type = "chunk-response"
        /\ Head(fromUnit).arg = calls[j].chunk /\ Head(fromUnit).trips = "data"

\* C34: without terminate() and with every fetch attempt completing, a batch
\* that is in the Loading set eventually leaves it, also when the worker
\* crashes between load-batch and batch-processed, and every caller that waits
\* for a load (the one that started it and its waiters) eventually goes on.
C34_LoadingEventuallyLeaves ==
    /\ \A b \in Batches : (b \in loadingBatches) ~> (b \notin loadingBatches)
    /\ \A id \in CallIds :
          (calls[id].pc \in {"fetching", "delay", "waitProcessed", "waitLoad"})
              ~> (calls[id].pc \notin {"fetching", "delay", "waitProcessed", "waitLoad"})

\* The fetch attempt of call id, in flight when terminate() was called,
\* completes in this step.
FetchCompletesAfterTerminate(id) ==
    terminated /\ calls[id].pc = "fetching" /\ calls'[id] # calls[id]

\* C35: after terminate() the completion of a fetch that was in flight, with
\* trips or with an error, posts no message to the worker, does not invoke the
\* error callback with any value, null included, and leaves the Loaded set, the
\* Loading set, the waiter lists, the pending chunk requests and the retry
\* timers empty.
C35_Step ==
    \A id \in CallIds :
        FetchCompletesAfterTerminate(id)
           => /\ toUnit' = toUnit
              /\ lastOnError' = lastOnError /\ crashErrors' = crashErrors
              /\ \A o \in CallIds : /\ calls'[o].reported = calls[o].reported
                                    /\ calls'[o].cleared = calls[o].cleared
              /\ loadedBatches' = {} /\ loadingBatches' = {}
              /\ \A b \in Batches : batchProcessedCallbacks'[b] = <<>>
              /\ \A c \in Chunks : pendingChunkRequests'[c] = 0
              /\ pendingRetryTimeouts' = {}
\* C35: every step of the service is such a step.
C35_FetchAfterTerminateInert == [][C35_Step]_vars

\* C36: before terminate() only a batch of the Loading set has a waiter list,
\* and in the step in which a batch leaves the Loading set its waiter list is
\* removed.
C36_Step ==
    /\ ~terminated' =>
          \A b \in Batches : batchProcessedCallbacks'[b] # <<>> => b \in loadingBatches'
    /\ \A b \in Batches :
          (b \in loadingBatches /\ b \notin loadingBatches')
             => batchProcessedCallbacks'[b] = <<>>
\* C36: every step of the service is such a step.
C36_WaiterListsOfLoading == [][C36_Step]_vars
\* One batch has left the Loading set by a failed load and has no waiter list;
\* another is Loading with its waiter list.
C36_Witness ==
    /\ ~terminated
    /\ \E b, d \in Batches :
          /\ b # d
          /\ d \in loadingBatches /\ batchProcessedCallbacks[d] # <<>>
          /\ b \notin loadingBatches /\ batchProcessedCallbacks[b] = <<>>
          /\ \E id \in CallIds : /\ calls[id].batch = b /\ calls[id].pc = "rejected"
                                 /\ calls[id].result = "fetch"

\* C37: with the messages handled in the order they were posted and a worker
\* that does not crash, the worker retains every batch of the Loaded set: a
\* batch enters the Loaded set only in the step that handles the worker's
\* batch-processed for it, and leaves it only in the step that sends clear-batch
\* for it (or in terminate(), which empties the set).
C37_Step ==
    /\ loadedBatches' \subseteq unitBatches'
    /\ \A b \in Batches :
          /\ (b \notin loadedBatches /\ b \in loadedBatches') => BatchProcessedHandled(b)
          /\ (b \in loadedBatches /\ b \notin loadedBatches')
                => ClearSent(b) \/ (~terminated /\ terminated')
          /\ ClearSent(b) => b \notin loadedBatches'
\* C37: every step of the service is such a step.
C37_LoadedRetainedByUnit == [][C37_Step]_vars

\* The fetch of the load of call id succeeds in this step.
FetchSucceeds(id) ==
    calls[id].pc = "fetching" /\ calls'[id].pc \notin {"fetching", "delay", "rejected"}

\* C38: the step in which the fetch of a load succeeds invokes the error
\* callback with null, once, for that load and for no other, whatever error was
\* delivered last (for this batch or another), and it is the step that posts
\* load-batch; every load-batch is posted by such a step; no load clears the
\* error twice; and the value last delivered changes only by a fetch success
\* (null), a failed prefetch (load error) or a crash report.
C38_Step ==
    /\ \A id \in CallIds :
          /\ FetchSucceeds(id)
                => /\ lastOnError' = "null"
                   /\ calls'[id].cleared = calls[id].cleared + 1
                   /\ calls'[id].reported = calls[id].reported
                   /\ \A o \in CallIds \ {id} : calls'[o].cleared = calls[o].cleared
                   /\ worker = "set"
                         => NewlySent = {Msg("load-batch", calls[id].batch, "none")}
          /\ calls'[id].cleared # calls[id].cleared => FetchSucceeds(id)
          /\ calls'[id].cleared <= 1
    /\ \A m \in NewlySent :
          m.type = "load-batch"
             => \E id \in CallIds : FetchSucceeds(id) /\ calls[id].batch = m.arg
    /\ lastOnError' # lastOnError
          => \/ lastOnError' = "null" /\ \E id \in CallIds : FetchSucceeds(id)
             \/ /\ lastOnError' = "load"
                /\ \E id \in CallIds : /\ calls[id].kind = "prefetchBatch"
                                       /\ calls'[id].pc = "rejected"
                                       /\ calls'[id].reported = calls[id].reported + 1
             \/ lastOnError' = "crash" /\ CrashHandled
\* C38: every step of the service is such a step.
C38_SuccessClearsError == [][C38_Step]_vars
\* The prefetch of one batch failed and was reported; the later success of a
\* load of another batch has cleared the error.
C38_Witness ==
    /\ ~terminated /\ lastOnError = "null"
    /\ \E i, j \in CallIds \ {InitId} :
          /\ calls[i].kind = "prefetchBatch" /\ calls[i].pc = "rejected" /\ calls[i].reported = 1
          /\ calls[j].cleared = 1 /\ calls[j].batch # calls[i].batch

\* Call j registers its chunk resolver in this step.
Registers(j) ==
    /\ calls'[j].pc = "waitChunk"
    /\ calls[j].pc # "waitChunk" \/ calls'[j].chunk # calls[j].chunk
\* The request-chunk(c) messages posted in this step.
NewRequestChunks(c) ==
    {n \in (Len(toUnit) + 1)..Len(toUnit') : toUnit'[n] = Msg("request-chunk", c, "none")}
\* Call i waits for a chunk-response but its resolver is no longer registered.
Orphaned(i) ==
    /\ calls[i].kind = "requestChunk" /\ calls[i].pc = "waitChunk"
    /\ pendingChunkRequests[calls[i].chunk] # i

\* C39: one resolver is registered per chunk index, that of the call that
\* registered last: a requestChunk(c) that registers while another call waits
\* for chunk-response(c) takes the other's place and leaves that call pending;
\* every registering call posts its own request-chunk(c); a chunk-response(c)
\* resolves only the registered call and removes the entry; a chunk-response(c)
\* that finds no entry changes nothing; and a call whose resolver was replaced
\* is never settled.
C39_Step ==
    /\ \A c \in Chunks :
          LET new == {j \in CallIds : Registers(j) /\ calls'[j].chunk = c}
          IN  /\ new # {} => pendingChunkRequests'[c] \in new
              /\ worker = "set" => Cardinality(NewRequestChunks(c)) = Cardinality(new)
              /\ ChunkResponseHandled(c) =>
                    LET r == pendingChunkRequests[c]
                    IN  /\ r = 0 => UNCHANGED svcVars
                        /\ r # 0 =>
                              /\ calls[r].kind = "requestChunk"
                                    => /\ calls'[r].pc = "resolved"
                                       /\ pendingChunkRequests'[c] = 0
                              /\ \A o \in CallIds \ {r} : calls'[o] = calls[o]
    /\ \A i \in CallIds : Orphaned(i) => (calls'[i] = calls[i] /\ Orphaned(i)')
\* C39: every step of the service is such a step.
C39_LastResolverWins == [][C39_Step]_vars
\* Two requestChunk calls for the same index: the second was resolved by the
\* first chunk-response, the second chunk-response has been handled too, and
\* the first call still waits, with no resolver registered.
C39_Witness ==
    \E i, j \in CallIds :
        /\ i < j /\ calls[i].kind = "requestChunk" /\ calls[j].kind = "requestChunk"
        /\ calls[i].chunk = calls[j].chunk
        /\ calls[i].pc = "waitChunk" /\ calls[j].pc = "resolved" /\ calls[j].result = "data"
        /\ pendingChunkRequests[calls[i].chunk] = 0
        /\ toUnit = <<>> /\ fromUnit = <<>> /\ unitStatus = "running"

\* C40: the pending retry timers are those of the loads that wait in their
\* retry delay: a timer is added in the step in which a failed attempt starts
\* the delay, removed in the step in which it fires (the load goes on with the
\* next attempt) or by terminate(), which leaves none; and each batch of the
\* Loading set has at most one pending timer, timers belonging only to batches
\* of the Loading set.
C40_Step ==
    /\ ~terminated' =>
          \A id \in CallIds : id \in pendingRetryTimeouts' <=> calls'[id].pc = "delay"
    /\ terminated' => pendingRetryTimeouts' = {}
    /\ \A id \in CallIds :
          /\ (id \notin pendingRetryTimeouts /\ id \in pendingRetryTimeouts')
                => /\ calls[id].pc = "fetching" /\ calls'[id].pc = "delay"
                   /\ calls[id].attempt < MAX_RETRIES
          /\ (id \in pendingRetryTimeouts /\ id \notin pendingRetryTimeouts')
                => \/ /\ calls[id].pc = "delay" /\ calls'[id].pc = "fetching"
                      /\ calls'[id].attempt = calls[id].attempt + 1
                   \/ ~terminated /\ terminated'
          /\ id \in pendingRetryTimeouts' => calls'[id].batch \in loadingBatches'
    /\ \A b \in Batches :
          Cardinality({id \in pendingRetryTimeouts' : calls'[id].batch = b}) <= 1
\* C40: every step of the service is such a step.
C40_PendingTimers == [][C40_Step]_vars
\* A load waits in its second retry delay with its timer pending while another
\* caller waits for the same load.
C40_Witness ==
    /\ ~terminated
    /\ \E id, w \in CallIds :
          /\ id \in pendingRetryTimeouts /\ calls[id].pc = "delay" /\ calls[id].attempt = 2
          /\ calls[w].pc = "waitLoad" /\ calls[w].batch = calls[id].batch
          /\ w \notin pendingRetryTimeouts

====
